---------------------------- MODULE Spec2Model ----------------------------
(***************************************************************************)
(* Model of the tracking kernel of AI_CAM_SETUP:                           *)
(*   src/tracking.py                  CentroidTracker, MultiObjectTracker  *)
(*   src/enhanced_football_tracker.py FootballEventDetector,               *)
(*                                    HighlightGenerator                   *)
(*   src/ai_highlight_processor.py    FootballHighlightProcessor           *)
(*                                                                         *)
(* Conventions.  Python lists and numpy arrays are 0-based; sequences here *)
(* are 1-based, so row/column r of the code is index r+1 below.  Distances *)
(* are compared through their squares (coordinates are integers, so        *)
(* sqrt is strictly monotonic on the values that occur).                   *)
(***************************************************************************)
EXTENDS Integers, Sequences, FiniteSets, TLC

(***************************************************************************)
(* Bounds of the model.  The thresholds of a tracker are constructor       *)
(* arguments (tracking.py:18-22); the model instantiates them with small   *)
(* values so that ageing and eviction happen within a few updates.         *)
(***************************************************************************)
MaxX == 3
MaxDets == 2
MaxId == 3
MaxDisappeared == 1
MaxDistance == 1
TrailLength == 1

\* Pixel positions a detection centre can take (a line of the image).
Points == {<<x, 0>> : x \in 0..MaxX}

\* A detection as CentroidTracker.update reads it: a dict with the keys
\* "center" and "bbox" (tracking.py:102, 140; the keys class_name, confidence
\* and area are read on the same lines as bbox and stand with it).
Detection(p) == [center |-> p, bbox |-> <<p[1], p[2], p[1], p[2]>>]
Detections == {Detection(p) : p \in Points}

\* "key in dict" for a dict modelled as a record.
HasKey(d, key) == key \in DOMAIN d

\* Every list of at most MaxDets detections.
DetLists == UNION {[1..n -> Detections] : n \in 0..MaxDets}

-----------------------------------------------------------------------------
(* Generic helpers for Python containers *)

\* dict assignment d[k] = v on a dict modelled as a function.
Put(d, k, v) == [x \in (DOMAIN d) \cup {k} |-> IF x = k THEN v ELSE d[x]]

\* The element of a one-element set: {F(x) : x \in {e}} names the value of e
\* by x, so that e is computed once however often F reads it.
TheOne(S) == CHOOSE x \in S : TRUE

\* del d[k]
Del(d, k) == [x \in (DOMAIN d) \ {k} |-> d[x]]

\* The empty dict.
EmptyDict == [x \in {} |-> 0]

\* Ascending list of a set of integers: the order in which CPython iterates
\* a set of small non-negative ints (hash(i) = i, table never rehashed out
\* of order for values below the table size).
RECURSIVE SortedSeq(_)
SortedSeq(S) ==
  IF S = {} THEN <<>>
  ELSE LET m == CHOOSE x \in S : \A y \in S : x <= y
       IN <<m>> \o SortedSeq(S \ {m})

\* A full deque that keeps what it has and drops the new element.
DequeAppendKeepOldest(q, x, k) ==
  IF k = 0 THEN <<>>
  ELSE IF Len(q) >= k THEN q
  ELSE Append(q, x)

\* collections.deque(maxlen=k).append(x)
DequeAppend(q, x, k) ==
  IF k = 0 THEN <<>>
  ELSE IF Len(q) >= k THEN Append(Tail(q), x)
  ELSE Append(q, x)

-----------------------------------------------------------------------------
(* CentroidTracker (src/tracking.py:13-173) *)

\* An OrderedDict id -> object is a sequence of [id, centroid] entries in
\* insertion order.
ObjIds(objects) == {objects[i].id : i \in 1..Len(objects)}

\* self.objects[k] = v : replaces in place when k is a key, else appends.
OPut(objects, k, v) ==
  IF k \in ObjIds(objects)
  THEN [i \in 1..Len(objects) |->
          IF objects[i].id = k THEN [id |-> k, centroid |-> v] ELSE objects[i]]
  ELSE Append(objects, [id |-> k, centroid |-> v])

\* del self.objects[k]
ODel(objects, k) == SelectSeq(objects, LAMBDA o : o.id # k)

\* CentroidTracker.__init__
CentroidTracker(max_disappeared, max_distance) ==
  [next_object_id |-> 0,
   objects |-> <<>>,
   disappeared |-> EmptyDict,
   trails |-> EmptyDict,
   max_disappeared |-> max_disappeared,
   max_distance |-> max_distance,
   trail_length |-> TrailLength]

\* Mutant of register: the id counter is not advanced.
registerSameId(t, centroid, detection_info) ==
  [t EXCEPT
     !.objects = OPut(@, t.next_object_id, centroid),
     !.disappeared = Put(@, t.next_object_id, 0),
     !.trails = Put(@, t.next_object_id,
                    DequeAppend(<<>>, centroid, t.trail_length))]

\* CentroidTracker.register
register(t, centroid, detection_info) ==
  [t EXCEPT
     !.objects = OPut(@, t.next_object_id, centroid),
     !.disappeared = Put(@, t.next_object_id, 0),
     !.trails = Put(@, t.next_object_id,
                    DequeAppend(<<>>, centroid, t.trail_length)),
     !.next_object_id = @ + 1]

\* Mutant of deregister: the trail of the object is left behind.
deregisterKeepTrail(t, object_id) ==
  [t EXCEPT
     !.objects = ODel(@, object_id),
     !.disappeared = Del(@, object_id)]

\* CentroidTracker.deregister
deregister(t, object_id) ==
  [t EXCEPT
     !.objects = ODel(@, object_id),
     !.disappeared = Del(@, object_id),
     !.trails = Del(@, object_id)]

\* Squared Euclidean distance; dist.cdist computes its square root.
SqDist(p, q) == (p[1] - q[1]) * (p[1] - q[1]) + (p[2] - q[2]) * (p[2] - q[2])

\* D = dist.cdist(object_centroids, input_centroids), squared.
DistMatrix(objects, input_centroids) ==
  [r \in 1..Len(objects) |->
     [c \in 1..Len(input_centroids) |->
        SqDist(objects[r].centroid, input_centroids[c])]]

\* D.min(axis=1)[r]
RowMin(D, r) == CHOOSE m \in {D[r][c] : c \in DOMAIN D[r]} :
                  \A c \in DOMAIN D[r] : m <= D[r][c]

\* D.argmin(axis=1)[r] : the first column holding the row minimum.
ArgMin(D, r) == CHOOSE c \in DOMAIN D[r] :
                  /\ D[r][c] = RowMin(D, r)
                  /\ \A c2 \in DOMAIN D[r] : D[r][c2] = RowMin(D, r) => c <= c2

\* The results D.min(axis=1).argsort() can give: every ordering of the rows
\* by ascending row minimum.  numpy's default sort is not stable, so rows
\* with equal minima may come in either order.
RowOrders(D) ==
  LET n == Len(D) IN
  {s \in [1..n -> 1..n] :
     /\ \A i, j \in 1..n : i # j => s[i] # s[j]
     /\ \A i, j \in 1..n : i < j => RowMin(D, s[i]) <= RowMin(D, s[j])}


\* Mutant of Expired: evicts one update too early (>= for >).
ExpiredEarly(t, object_id) == t.disappeared[object_id] >= t.max_disappeared

\* Mutant of Expired: an object is kept for one more update.
ExpiredLate(t, object_id) == t.disappeared[object_id] > t.max_disappeared + 1

\* tracking.py:92 and :165 : "if self.disappeared[object_id] > self.max_disappeared"
Expired(t, object_id) == t.disappeared[object_id] > t.max_disappeared

\* tracking.py:88-93 : the loop of the empty-detections branch, over
\* list(self.disappeared.keys()).
RECURSIVE AgeAll(_, _)
AgeAll(t, keys) ==
  IF keys = <<>> THEN t
  ELSE LET object_id == Head(keys)
           t1 == [t EXCEPT !.disappeared[object_id] = @ + 1]
           t2 == IF Expired(t1, object_id) THEN deregister(t1, object_id) ELSE t1
       IN AgeAll(t2, Tail(keys))

\* Mutant of Consumed: forgets that a detection is already taken.
ConsumedRowOnly(st, row, col) == row \in st.used_row_indices

\* tracking.py:130 : "if row in used_row_indices or col in used_col_indices"
Consumed(st, row, col) ==
  row \in st.used_row_indices \/ col \in st.used_col_indices

\* Mutant of TooFar: a detection exactly at max_distance is rejected too.
TooFarAtLimit(t, D, row, col) == D[row][col] >= t.max_distance * t.max_distance

\* tracking.py:133 : "if D[row, col] > self.max_distance"
TooFar(t, D, row, col) == D[row][col] > t.max_distance * t.max_distance

\* Mutant of Accept: the disappearance counter is not reset on a match.
AcceptNoReset(st, row, col, input_centroids) ==
  LET object_id == st.t.objects[row].id IN
  [st EXCEPT
     !.t.objects = OPut(@, object_id, input_centroids[col]),
     !.t.trails[object_id] =
        DequeAppend(@, input_centroids[col], st.t.trail_length),
     !.used_row_indices = @ \cup {row},
     !.used_col_indices = @ \cup {col},
     !.matches = Append(@, [id |-> object_id, col |-> col])]

\* tracking.py:136-152 : the body of the matching loop for an accepted pair.
Accept(st, row, col, input_centroids) ==
  LET object_id == st.t.objects[row].id IN
  [st EXCEPT
     !.t.objects = OPut(@, object_id, input_centroids[col]),
     !.t.disappeared = Put(@, object_id, 0),
     !.t.trails[object_id] =
        DequeAppend(@, input_centroids[col], st.t.trail_length),
     !.used_row_indices = @ \cup {row},
     !.used_col_indices = @ \cup {col},
     !.matches = Append(@, [id |-> object_id, col |-> col])]

\* tracking.py:128-152 : "for row, col in zip(rows, cols)", from position i.
\* An accepted pair reads detection_info[col]["bbox"] (line 140) while it
\* builds the new object dict: a detection without that key raises KeyError
\* there, before the assignment of line 138 and after the earlier pairs of
\* the loop were applied.
RECURSIVE MatchLoop(_, _, _, _, _, _)
MatchLoop(st, D, rows, input_centroids, detection_info, i) ==
  IF i > Len(rows) THEN st
  ELSE LET row == rows[i]
           col == ArgMin(D, row)
       IN IF Consumed(st, row, col) \/ TooFar(st.t, D, row, col)
          THEN MatchLoop(st, D, rows, input_centroids, detection_info, i + 1)
          ELSE IF ~HasKey(detection_info[col], "bbox")
          THEN [st EXCEPT !.raised = TRUE]
          ELSE MatchLoop(Accept(st, row, col, input_centroids),
                         D, rows, input_centroids, detection_info, i + 1)

\* tracking.py:160-166 : "for row in unused_row_indices".  The key list is
\* rebuilt on every iteration, after earlier iterations may have removed
\* keys: list(self.objects.keys())[row] raises IndexError when row is past
\* the end of the shrunken list, and otherwise names the object now at
\* that position.
RECURSIVE AgeUnused(_, _)
AgeUnused(st, unused_rows) ==
  IF unused_rows = <<>> \/ st.raised THEN st
  ELSE LET row == Head(unused_rows) IN
       IF row > Len(st.t.objects)
       THEN [st EXCEPT !.raised = TRUE]
       ELSE LET object_id == st.t.objects[row].id
                t1 == [st.t EXCEPT !.disappeared[object_id] = @ + 1]
                t2 == IF Expired(t1, object_id)
                      THEN deregister(t1, object_id) ELSE t1
            IN AgeUnused([st EXCEPT !.t = t2,
                                    !.aged = Append(@, object_id)],
                         Tail(unused_rows))

\* tracking.py:170-171 : "for col in unused_col_indices: self.register(...)"
RECURSIVE RegisterUnused(_, _, _)
RegisterUnused(st, unused_cols, input_centroids) ==
  IF unused_cols = <<>> THEN st
  ELSE LET col == Head(unused_cols) IN
       RegisterUnused(
         [st EXCEPT
            !.t = register(st.t, input_centroids[col], col),
            !.registered = Append(@, [id |-> st.t.next_object_id, col |-> col])],
         Tail(unused_cols), input_centroids)

\* tracking.py:159 : "if D.shape[0] >= D.shape[1]"
MoreObjectsThanDetections(nrows, ncols) == nrows >= ncols

\* The outcome of one update() call: the tracker afterwards, whether the
\* call raised, and what the call did (pairs accepted, objects aged by the
\* unmatched-row loop, detections registered).
Outcome(t) ==
  [t |-> t, raised |-> FALSE, used_row_indices |-> {}, used_col_indices |-> {},
   matches |-> <<>>, aged |-> <<>>, registered |-> <<>>]

\* tracking.py:154-171 : what update() does after the matching loop, whose
\* outcome is m, for a distance matrix of nrows rows: nothing more when the
\* loop raised.
AfterMatch(m, nrows, input_centroids) ==
  LET unused_row_indices == (1..nrows) \ m.used_row_indices
      unused_col_indices == (1..Len(input_centroids)) \ m.used_col_indices
  IN IF m.raised THEN m
     ELSE IF MoreObjectsThanDetections(nrows, Len(input_centroids))
     THEN AgeUnused(m, SortedSeq(unused_row_indices))
     ELSE RegisterUnused(m, SortedSeq(unused_col_indices), input_centroids)

\* tracking.py:101-104 : 'cx, cy = detection["center"]' raises KeyError for
\* a detection without that key, before the tracker is touched.
LacksCenter(detections) ==
  \E i \in 1..Len(detections) : ~HasKey(detections[i], "center")

\* CentroidTracker.update (tracking.py:76-173).  `rows` is the result of
\* D.min(axis=1).argsort() (an element of RowOrders(D)); it is not read when
\* there are no detections or no objects.  register() reads bbox with
\* .get(), so a detection without it is registered like any other.
update(t, detections, rows) ==
  IF Len(detections) = 0
  THEN LET keys == SortedSeq(DOMAIN t.disappeared) IN
       [Outcome(AgeAll(t, keys)) EXCEPT !.aged = keys]
  ELSE IF LacksCenter(detections)
  THEN [Outcome(t) EXCEPT !.raised = TRUE]
  ELSE LET input_centroids == [i \in 1..Len(detections) |-> detections[i].center]
       IN IF Len(t.objects) = 0
          THEN RegisterUnused(Outcome(t), SortedSeq(1..Len(detections)),
                              input_centroids)
          ELSE TheOne({AfterMatch(m, Len(t.objects), input_centroids) :
                         m \in {MatchLoop(Outcome(t),
                                          DistMatrix(t.objects, input_centroids),
                                          rows, input_centroids, detections,
                                          1)}})

\* The row orders an update() call of tracker t on `detections` can see.
RowOrdersFor(t, detections) ==
  IF Len(detections) = 0 \/ Len(t.objects) = 0 \/ LacksCenter(detections)
  THEN {<<>>}
  ELSE RowOrders(DistMatrix(t.objects,
                   [i \in 1..Len(detections) |-> detections[i].center]))

-----------------------------------------------------------------------------
(* MultiObjectTracker (src/tracking.py:176-249, 395-412) *)

MaxFrames == 2
HistoryLen == 30

\* The categories of the model: a category with the default thresholds and
\* one with thresholds of its own, out of OBJECT_CATEGORIES.keys().
Categories == {"people", "vehicles"}

\* A key of the input map that is no known category.
UnknownCategory == "unknown"

\* tracking.py:185-195 : the tracker of a category.  The thresholds are
\* scaled to the model: vehicles (20, 120 in the code) disappear sooner and
\* may move farther than the default (30, 80).
TrackerFor(category) ==
  IF category = "vehicles"
  THEN CentroidTracker(MaxDisappeared, MaxDistance + 1)
  ELSE CentroidTracker(MaxDisappeared + 1, MaxDistance)

\* MultiObjectTracker.__init__
MultiObjectTracker ==
  [trackers |-> [c \in Categories |-> TrackerFor(c)],
   frame_count |-> 0,
   object_count_history |-> [c \in Categories |-> <<>>],
   total_objects_detected |-> 0,
   raised |-> FALSE]

\* sum(history)
RECURSIVE SeqSum(_)
SeqSum(q) == IF q = <<>> THEN 0 ELSE Head(q) + SeqSum(Tail(q))

\* MultiObjectTracker._get_stats : np.mean(history) is kept as the pair
\* <<sum, count>>, and is 0 for an empty history.
get_stats(m) ==
  [total_frames |-> m.frame_count,
   total_objects |-> m.total_objects_detected,
   avg |-> [c \in Categories |->
              IF m.object_count_history[c] = <<>> THEN <<0, 1>>
              ELSE <<SeqSum(m.object_count_history[c]),
                     Len(m.object_count_history[c])>>]]

\* tracking.py:222-227 : the loop body once the category's tracker, now t,
\* was updated.
Counted(st, category, t) ==
  LET count == Len(t.objects) IN
  [st EXCEPT
     !.m.trackers[category] = t,
     !.m.object_count_history[category] = DequeAppend(@, count, HistoryLen),
     !.tracked_objects = Put(@, category, t.objects),
     !.total_objects = @ + count,
     !.updated = @ \cup {category}]

\* tracking.py:220-227 : "for category, detections in
\* categorized_detections.items()", over the keys in the order `order`, from
\* position i.  st holds the tracker, tracked_objects, total_objects and the
\* categories whose tracker was updated.
RECURSIVE UpdateLoop(_, _, _, _, _)
UpdateLoop(st, categorized_detections, order, rowsOf, i) ==
  IF i > Len(order) \/ st.m.raised THEN st
  ELSE LET category == order[i]
           detections == categorized_detections[category]
       IN IF category \in DOMAIN st.m.trackers
          THEN TheOne(
                 {IF o.raised
                  THEN [st EXCEPT !.m.trackers[category] = o.t,
                                  !.m.raised = TRUE]
                  ELSE TheOne(
                         {UpdateLoop(s, categorized_detections, order, rowsOf,
                                     i + 1) :
                            s \in {Counted(st, category, o.t)}}) :
                    o \in {update(st.m.trackers[category], detections,
                                  rowsOf[category])}})
          ELSE UpdateLoop(st, categorized_detections, order, rowsOf, i + 1)

\* MultiObjectTracker.update (tracking.py:204-235): the tracker afterwards
\* and the returned value.
mot_update(m, categorized_detections, order, rowsOf) ==
  TheOne(
    {LET m2 == IF st.m.raised THEN st.m
               ELSE [st.m EXCEPT !.total_objects_detected = st.total_objects]
     IN [m |-> m2,
         updated |-> st.updated,
         ret |-> [objects |-> st.tracked_objects,
                  frame_count |-> m2.frame_count,
                  stats |-> get_stats(m2)]] :
       st \in {UpdateLoop([m |-> [m EXCEPT !.frame_count = @ + 1],
                           tracked_objects |-> EmptyDict,
                           total_objects |-> 0, updated |-> {}],
                          categorized_detections, order, rowsOf, 1)}})

\* reset() that leaves the frame counter as it is.
mot_resetKeepCount(m) ==
  [m EXCEPT
     !.trackers = [c \in Categories |-> TrackerFor(c)],
     !.total_objects_detected = 0,
     !.object_count_history = [c \in Categories |-> <<>>]]

\* MultiObjectTracker.reset (tracking.py:395-412)
mot_reset(m) ==
  [m EXCEPT
     !.trackers = [c \in Categories |-> TrackerFor(c)],
     !.frame_count = 0,
     !.total_objects_detected = 0,
     !.object_count_history = [c \in Categories |-> <<>>]]

\* The input maps of the model: any set of known categories, each with a
\* list of at most one detection at either end of the line, and possibly a
\* key that is no known category.
MultiDetLists ==
  {<<>>} \cup {<<Detection(p)>> : p \in {<<0, 0>>, <<MaxX, 0>>}}
KnownInputs == UNION {[K -> MultiDetLists] : K \in SUBSET Categories}
MultiInputs ==
  KnownInputs \cup {Put(f, UnknownCategory, <<>>) : f \in KnownInputs}

\* The orders in which a dict with the key set K can be iterated.
KeyOrders(K) ==
  {s \in [1..Cardinality(K) -> K] :
     \A i, j \in 1..Cardinality(K) : i # j => s[i] # s[j]}

\* One argsort result for each category updated by a call.
RowChoices(m, categorized_detections) ==
  LET K == DOMAIN categorized_detections \cap Categories
      All == UNION {RowOrdersFor(m.trackers[c], categorized_detections[c]) :
                      c \in K}
  IN {f \in [K -> All] :
        \A c \in K : f[c] \in RowOrdersFor(m.trackers[c],
                                           categorized_detections[c])}

-----------------------------------------------------------------------------
(* FootballEventDetector (src/enhanced_football_tracker.py:138-334) *)

\* The clock: time.time() in whole seconds.  StartTime is the clock at
\* construction (far from 0, as the epoch is), MaxTime the seconds modelled
\* after it, MaxStep the longest gap between two frames.
StartTime == 100
MaxTime == 8
MaxStep == 3

\* obj.get("track_id") of an object without the key, and the track_id None.
None == -1

\* FootballEventDetector.define_goal_areas, in the dict's order.
goal_areas ==
  <<[name |-> "left_goal", x1 |-> 0, y1 |-> 200, x2 |-> 100, y2 |-> 400],
    [name |-> "right_goal", x1 |-> 540, y1 |-> 200, x2 |-> 640, y2 |-> 400]>>

GoalNames == {goal_areas[i].name : i \in 1..Len(goal_areas)}

\* FootballEventDetector.__init__ ; current_possession and
\* last_possession_change are attributes that do not exist yet.
FootballEventDetector ==
  [previous_positions |-> EmptyDict,
   event_cooldown |-> EmptyDict,
   has_current_possession |-> FALSE,
   current_possession |-> None,
   has_last_possession_change |-> FALSE,
   last_possession_change |-> 0]

\* The cooldown test with ">=" for ">".
CooldownOverInclusive(d, cooldown_key, current_time, period) ==
  \/ cooldown_key \notin DOMAIN d.event_cooldown
  \/ current_time - d.event_cooldown[cooldown_key] >= period

\* "cooldown_key not in self.event_cooldown
\*  or current_time - self.event_cooldown[cooldown_key] > period"
CooldownOver(d, cooldown_key, current_time, period) ==
  \/ cooldown_key \notin DOMAIN d.event_cooldown
  \/ current_time - d.event_cooldown[cooldown_key] > period

\* enhanced_football_tracker.py:209-212 : the goal-area test, on the first
\* two entries of the ball's bbox.
InGoalArea(goal_area, ball_x, ball_y) ==
  /\ goal_area.x1 <= ball_x /\ ball_x <= goal_area.x2
  /\ goal_area.y1 <= ball_y /\ ball_y <= goal_area.y2

NoEvent == [type |-> "none"]

\* detect_goal without the write of the cooldown time.
detect_goalNoRecord(d, ball, current_time) ==
  LET hit == {i \in 1..Len(goal_areas) :
                /\ InGoalArea(goal_areas[i], ball.bbox[1], ball.bbox[2])
                /\ CooldownOver(d, <<"goal", goal_areas[i].name>>,
                                current_time, 5)}
  IN IF hit = {} THEN [d |-> d, event |-> NoEvent]
     ELSE [d |-> d,
           event |-> [type |-> "goal", timestamp |-> current_time,
                      location |->
                         goal_areas[CHOOSE i \in hit :
                                      \A j \in hit : i <= j].name,
                      confidence |-> 80]]

\* FootballEventDetector.detect_goal : the detector afterwards and the event
\* returned (NoEvent for None).  The loop returns at the first goal area
\* that holds the ball and whose cooldown is over.
detect_goal(d, ball, current_time) ==
  LET ball_x == ball.bbox[1]
      ball_y == ball.bbox[2]
      hit == {i \in 1..Len(goal_areas) :
                /\ InGoalArea(goal_areas[i], ball_x, ball_y)
                /\ CooldownOver(d, <<"goal", goal_areas[i].name>>,
                                current_time, 5)}
  IN IF hit = {} THEN [d |-> d, event |-> NoEvent]
     ELSE LET i == CHOOSE i \in hit : \A j \in hit : i <= j
              goal_name == goal_areas[i].name
          IN [d |-> [d EXCEPT !.event_cooldown =
                        Put(@, <<"goal", goal_name>>, current_time)],
              event |-> [type |-> "goal", timestamp |-> current_time,
                         location |-> goal_name, confidence |-> 80]]

\* Twice the point the code calls the centre of a bbox:
\* (bbox[0] + bbox[2] / 2, bbox[1] + bbox[3] / 2).
Center2(bbox) == <<2 * bbox[1] + bbox[3], 2 * bbox[2] + bbox[4]>>

\* "if not player_id" : None and 0 are both false.
Falsy(player_id) == player_id = None \/ player_id = 0

\* detect_fast_movement with one cooldown key for all the ids.
detect_fast_movementSharedKey(d, player, current_time) ==
  LET player_id == player.track_id
      current_center == Center2(player.bbox)
      prev == d.previous_positions[player_id]
      time_diff == current_time - prev.time
      dist2 == SqDist(current_center, prev.pos)
      fast == /\ player_id \in DOMAIN d.previous_positions
              /\ time_diff > 0
              /\ dist2 > 10000 * time_diff * time_diff
      cooldown_key == <<"fast_movement", None>>
  IN IF Falsy(player_id) THEN [d |-> d, event |-> NoEvent]
     ELSE IF fast /\ CooldownOver(d, cooldown_key, current_time, 3)
     THEN [d |-> [d EXCEPT !.event_cooldown =
                     Put(@, cooldown_key, current_time)],
           event |-> [type |-> "fast_movement", timestamp |-> current_time,
                      player_id |-> player_id,
                      speed |-> [dist2 |-> dist2, time_diff |-> time_diff],
                      full_confidence |->
                         dist2 >= 40000 * time_diff * time_diff]]
     ELSE [d |-> [d EXCEPT !.previous_positions =
                     Put(@, player_id,
                         [pos |-> current_center, time |-> current_time])],
           event |-> NoEvent]

\* FootballEventDetector.detect_fast_movement.  speed > 50 is compared as
\* (2 distance)^2 > (100 time_diff)^2 ; the event returns before the position
\* history is written.
detect_fast_movement(d, player, current_time) ==
  LET player_id == player.track_id
      current_center == Center2(player.bbox)
      known == player_id \in DOMAIN d.previous_positions
      prev == d.previous_positions[player_id]
      time_diff == current_time - prev.time
      dist2 == SqDist(current_center, prev.pos)
      fast == /\ known
              /\ time_diff > 0
              /\ dist2 > 10000 * time_diff * time_diff
      cooldown_key == <<"fast_movement", player_id>>
  IN IF Falsy(player_id) THEN [d |-> d, event |-> NoEvent]
     ELSE IF fast /\ CooldownOver(d, cooldown_key, current_time, 3)
     THEN [d |-> [d EXCEPT !.event_cooldown =
                     Put(@, cooldown_key, current_time)],
           event |-> [type |-> "fast_movement", timestamp |-> current_time,
                      player_id |-> player_id,
                      speed |-> [dist2 |-> dist2, time_diff |-> time_diff],
                      full_confidence |->
                         dist2 >= 40000 * time_diff * time_diff]]
     ELSE [d |-> [d EXCEPT !.previous_positions =
                     Put(@, player_id,
                         [pos |-> current_center, time |-> current_time])],
           event |-> NoEvent]

\* enhanced_football_tracker.py:294-307 : the first player at the least
\* distance from the ball (0 when there is none).
ClosestPlayer(ball, players) ==
  LET dist(i) == SqDist(Center2(ball.bbox), Center2(players[i].bbox))
      best == {i \in 1..Len(players) :
                 \A j \in 1..Len(players) : dist(i) <= dist(j)}
  IN IF players = <<>> THEN 0
     ELSE CHOOSE i \in best : \A j \in best : i <= j

\* Mutant of detect_possession_change: no wait between two changes.
detect_possession_changeNoWait(d, ball, players, current_time) ==
  LET c == ClosestPlayer(ball, players)
      min_distance2 == SqDist(Center2(ball.bbox), Center2(players[c].bbox))
      player_id == players[c].track_id
  IN IF c = 0 \/ ~(min_distance2 < 10000) THEN [d |-> d, event |-> NoEvent]
     ELSE IF ~d.has_current_possession
     THEN [d |-> [d EXCEPT !.has_current_possession = TRUE,
                           !.current_possession = player_id],
           event |-> NoEvent]
     ELSE IF d.current_possession # player_id
     THEN [d |-> [d EXCEPT !.has_last_possession_change = TRUE,
                           !.last_possession_change = current_time,
                           !.current_possession = player_id],
           event |-> [type |-> "possession_change",
                      timestamp |-> current_time,
                      from_player |-> d.current_possession,
                      to_player |-> player_id, confidence |-> 70]]
     ELSE [d |-> d, event |-> NoEvent]

\* FootballEventDetector.detect_possession_change.  min_distance < 50 is
\* compared as (2 distance)^2 < 100^2.
detect_possession_change(d, ball, players, current_time) ==
  LET c == ClosestPlayer(ball, players)
      min_distance2 == SqDist(Center2(ball.bbox), Center2(players[c].bbox))
      player_id == players[c].track_id
      last_change == IF d.has_last_possession_change
                     THEN d.last_possession_change ELSE 0
  IN IF c = 0 \/ ~(min_distance2 < 10000) THEN [d |-> d, event |-> NoEvent]
     ELSE IF ~d.has_current_possession
     THEN [d |-> [d EXCEPT !.has_current_possession = TRUE,
                           !.current_possession = player_id],
           event |-> NoEvent]
     ELSE IF d.current_possession # player_id /\ current_time - last_change > 2
     THEN [d |-> [d EXCEPT !.has_last_possession_change = TRUE,
                           !.last_possession_change = current_time,
                           !.current_possession = player_id],
           event |-> [type |-> "possession_change",
                      timestamp |-> current_time,
                      from_player |-> d.current_possession,
                      to_player |-> player_id, confidence |-> 70]]
     ELSE [d |-> d, event |-> NoEvent]

\* "if event: events.append(event)"
AppendEvent(events, event) ==
  IF event = NoEvent THEN events ELSE Append(events, event)

\* enhanced_football_tracker.py:174-178 : ball is the last "sports ball" of
\* the list (0 when there is none), players are the "person" objects.
BallIndex(tracked_objects) ==
  LET balls == {i \in 1..Len(tracked_objects) :
                  tracked_objects[i].class_name = "sports ball"}
  IN IF balls = {} THEN 0 ELSE CHOOSE i \in balls : \A j \in balls : j <= i

Players(tracked_objects) ==
  SelectSeq(tracked_objects, LAMBDA obj : obj.class_name = "person")

\* enhanced_football_tracker.py:187-190 : "for player in players", from i.
RECURSIVE FastLoop(_, _, _, _)
FastLoop(st, players, current_time, i) ==
  IF i > Len(players) THEN st
  ELSE LET r == detect_fast_movement(st.d, players[i], current_time)
       IN FastLoop([d |-> r.d, events |-> AppendEvent(st.events, r.event)],
                   players, current_time, i + 1)

\* FootballEventDetector.detect_events : the detector afterwards and the
\* list of events returned.
detect_events(d, tracked_objects, current_time) ==
  LET b == BallIndex(tracked_objects)
      players == Players(tracked_objects)
      g == IF b # 0 THEN detect_goal(d, tracked_objects[b], current_time)
           ELSE [d |-> d, event |-> NoEvent]
      f == FastLoop([d |-> g.d, events |-> AppendEvent(<<>>, g.event)],
                    players, current_time, 1)
      p == IF b # 0 /\ players # <<>>
           THEN detect_possession_change(f.d, tracked_objects[b], players,
                                         current_time)
           ELSE [d |-> f.d, event |-> NoEvent]
  IN [d |-> p.d, events |-> AppendEvent(f.events, p.event)]

\* A detector that writes the box it measured back into each object.
objects_afterRewritten(tracked_objects) ==
  [i \in 1..Len(tracked_objects) |->
     [tracked_objects[i] EXCEPT !.bbox = <<0, 0, 0, 0>>]]

\* enhanced_football_tracker.py:156-334 : the caller's tracked_objects list
\* after detect_events.  The detector reads the objects (obj.get, obj["bbox"])
\* and keeps references to them in `ball` and `players`; it assigns to no
\* key of any object and neither adds to nor removes from the list.
objects_after(tracked_objects) == tracked_objects

\* The balls of the model, by bbox: well inside the left goal, well inside
\* the right goal, in midfield, and across the upper edge of the left goal.
BallBoxes ==
  {<<10, 210, 30, 230>>, <<560, 210, 580, 230>>, <<300, 100, 320, 120>>,
   <<0, 180, 40, 240>>}

Balls == [class_name : {"sports ball"}, bbox : BallBoxes, track_id : {None}]

\* The tracked_objects lists of the model: up to two balls.
BallFrames ==
  {<<>>} \cup {<<b>> : b \in Balls} \cup {<<b, c>> : b \in Balls, c \in Balls}

\* The persons of the model: track ids as CentroidTracker issues them (from
\* 0), each standing at one of two places 300 px apart; the ball, when there
\* is one, lies at one of these places.  A run has one cast: two persons who
\* move between the places, or two persons who stay at one place while the
\* ball comes and goes.  PlayTime is the time modelled (two seconds less for
\* the cast of two persons who can both be fast) and PlayStep the longest gap
\* between two frames, in seconds.
PlayerIds == {0, 1, 2}
Places == {0, 300}
PlayTime == 5
PlayStep == 2

Casts ==
  {[ids |-> PlayerIds \ {2}, places |-> Places, balls |-> {},
    time |-> PlayTime],
   [ids |-> PlayerIds \ {0}, places |-> Places, balls |-> {},
    time |-> PlayTime - 2],
   [ids |-> PlayerIds \ {0}, places |-> {0}, balls |-> Places,
    time |-> PlayTime]}

BoxAt(x) == <<x, 0, 20, 20>>

Person(id, x) == [class_name |-> "person", bbox |-> BoxAt(x), track_id |-> id]

BallAt(x) == [class_name |-> "sports ball", bbox |-> BoxAt(x),
              track_id |-> None]

\* The persons of a frame, in the order of their ids.
PersonsOf(where) ==
  [k \in 1..Cardinality(DOMAIN where) |->
     Person(SortedSeq(DOMAIN where)[k], where[SortedSeq(DOMAIN where)[k]])]

PlayFrames(c) ==
  UNION {{PersonsOf(where) : where \in [ids -> c.places]} :
           ids \in SUBSET c.ids}

\* The bbox lies within the goal area.
BoxInside(goal_area, bbox) ==
  /\ goal_area.x1 <= bbox[1] /\ bbox[3] <= goal_area.x2
  /\ goal_area.y1 <= bbox[2] /\ bbox[4] <= goal_area.y2

\* The goal area a bbox lies within ("none" when in neither).
AreaOf(bbox) ==
  IF \E i \in 1..Len(goal_areas) : BoxInside(goal_areas[i], bbox)
  THEN goal_areas[CHOOSE i \in 1..Len(goal_areas) :
                    BoxInside(goal_areas[i], bbox)].name
  ELSE "none"

\* The goal area that holds the centroid ((x1+x2)/2, (y1+y2)/2) of a bbox
\* [x1, y1, x2, y2], the boxes detection.py:207 builds ("none" when
\* neither does).
CentroidArea(bbox) ==
  LET In(g) == /\ 2 * g.x1 <= bbox[1] + bbox[3]
               /\ bbox[1] + bbox[3] <= 2 * g.x2
               /\ 2 * g.y1 <= bbox[2] + bbox[4]
               /\ bbox[2] + bbox[4] <= 2 * g.y2
  IN IF \E i \in 1..Len(goal_areas) : In(goal_areas[i])
     THEN goal_areas[CHOOSE i \in 1..Len(goal_areas) : In(goal_areas[i])].name
     ELSE "none"

-----------------------------------------------------------------------------
(* Sorting and truncating a list of highlights *)

\* h goes behind the entries that score less than or as much as it.
InsertAscending(sorted, h) ==
  LET k == Cardinality({i \in 1..Len(sorted) : sorted[i].score <= h.score})
  IN SubSeq(sorted, 1, k) \o <<h>> \o SubSeq(sorted, k + 1, Len(sorted))

\* h goes behind the entries that score more than or as much as it.
InsertDescending(sorted, h) ==
  LET k == Cardinality({i \in 1..Len(sorted) : sorted[i].score >= h.score})
  IN SubSeq(sorted, 1, k) \o <<h>> \o SubSeq(sorted, k + 1, Len(sorted))

RECURSIVE SortAscendingFrom(_, _, _)
SortAscendingFrom(sorted, highlights, i) ==
  IF i > Len(highlights) THEN sorted
  ELSE SortAscendingFrom(InsertAscending(sorted, highlights[i]),
                         highlights, i + 1)

RECURSIVE SortFrom(_, _, _)
SortFrom(sorted, highlights, i) ==
  IF i > Len(highlights) THEN sorted
  ELSE SortFrom(InsertDescending(sorted, highlights[i]), highlights, i + 1)

\* The sort without reverse=True.
sort_by_scoreAscending(highlights) == SortAscendingFrom(<<>>, highlights, 1)

\* highlights.sort(key=lambda x: x["score"], reverse=True) : list.sort is
\* stable, entries of equal score keep their order.
sort_by_score(highlights) == SortFrom(<<>>, highlights, 1)

\* highlights[:n] for n >= 0
Truncate(highlights, n) ==
  SubSeq(highlights, 1, IF n < Len(highlights) THEN n ELSE Len(highlights))

-----------------------------------------------------------------------------
(* HighlightGenerator (src/enhanced_football_tracker.py:336-521) *)

\* Scores are counted in 1/6000: weights in tenths and confidences in
\* hundredths multiply to thousandths, and the mean object count of a
\* segment of 1, 2 or 3 frames is a multiple of 1/6.

\* Every event type at the default weight 0.1.
event_weightFlat(event_type) == 1

\* self.event_weights.get(event_type, 0.1), in tenths.
event_weight(event_type) ==
  CASE event_type = "goal" -> 10
    [] event_type = "fast_movement" -> 6
    [] event_type = "possession_change" -> 3
    [] OTHER -> 1

\* The sum of weight * confidence over the events of one frame, in 1/1000.
RECURSIVE EventScore(_)
EventScore(events) ==
  IF events = <<>> THEN 0
  ELSE event_weight(Head(events).type) * Head(events).confidence
         + EventScore(Tail(events))

HasBall(data) ==
  \E k \in 1..Len(data.tracked_objects) :
     data.tracked_objects[k].class_name = "sports ball"

\* HighlightGenerator.calculate_segment_score
calculate_segment_score(segment_data) ==
  IF segment_data = <<>> THEN 0
  ELSE LET n == Len(segment_data)
           event_score ==
             SeqSum([i \in 1..n |-> EventScore(segment_data[i].events)])
           objects ==
             SeqSum([i \in 1..n |-> Len(segment_data[i].tracked_objects)])
           ball_detections ==
             Cardinality({i \in 1..n : HasBall(segment_data[i])})
       IN 6 * event_score + (600 * objects) \div n + 1200 * ball_detections

\* enhanced_football_tracker.py:394-416 : the while loop of score_segments.
RECURSIVE SegmentLoop(_, _, _, _)
SegmentLoop(tracking_data, current_time, end_time, segments) ==
  IF ~(current_time < end_time) THEN segments
  ELSE LET segment_end == IF current_time + 5 < end_time
                          THEN current_time + 5 ELSE end_time
           segment_data ==
             SelectSeq(tracking_data,
                       LAMBDA data : /\ current_time <= data.timestamp
                                     /\ data.timestamp < segment_end)
       IN SegmentLoop(tracking_data, segment_end, end_time,
                      Append(segments,
                             [start_time |-> current_time,
                              end_time |-> segment_end,
                              score |-> calculate_segment_score(segment_data),
                              data |-> segment_data]))

\* HighlightGenerator.score_segments, segment_duration = 5
score_segments(tracking_data) ==
  IF tracking_data = <<>> THEN <<>>
  ELSE SegmentLoop(tracking_data, tracking_data[1].timestamp,
                   tracking_data[Len(tracking_data)].timestamp, <<>>)

\* A peak test that lets a tie with a neighbour pass.
IsPeakTies(segments, i) ==
  /\ segments[i].score > 3000
  /\ \A j \in 1..Len(segments) :
       (j # i /\ i - 2 <= j /\ j <= i + 2) =>
          ~(segments[j].score > segments[i].score)

\* A peak test that looks one segment to either side only.
IsPeakNear(segments, i) ==
  /\ segments[i].score > 3000
  /\ \A j \in 1..Len(segments) :
       (j # i /\ i - 1 <= j /\ j <= i + 1) =>
          ~(segments[j].score >= segments[i].score)

\* enhanced_football_tracker.py:464-479 : over the floor of 0.5 and above
\* the two segments before and the two after.
IsPeak(segments, i) ==
  /\ segments[i].score > 3000
  /\ \A j \in 1..Len(segments) :
       (j # i /\ i - 2 <= j /\ j <= i + 2) =>
          ~(segments[j].score >= segments[i].score)

\* A highlight that ends with its peak segment.
PeakHighlightNoAfter(segments, i) ==
  [start_time |-> segments[IF i - 1 < 1 THEN 1 ELSE i - 1].start_time,
   end_time |-> segments[i].end_time,
   score |-> segments[i].score,
   peak_segment |-> segments[i]]

\* enhanced_football_tracker.py:481-496 : the highlight around peak i.
PeakHighlight(segments, i) ==
  LET start_idx == IF i - 1 < 1 THEN 1 ELSE i - 1
      end_idx == IF i + 1 > Len(segments) THEN Len(segments) ELSE i + 1
  IN [start_time |-> segments[start_idx].start_time,
      end_time |-> segments[end_idx].end_time,
      score |-> segments[i].score,
      peak_segment |-> segments[i]]

RECURSIVE PeakLoop(_, _, _, _)
PeakLoop(segments, min_duration, i, highlights) ==
  IF i > Len(segments) THEN highlights
  ELSE LET h == PeakHighlight(segments, i)
       IN PeakLoop(segments, min_duration, i + 1,
                   IF /\ IsPeak(segments, i)
                      /\ h.end_time - h.start_time >= min_duration
                   THEN Append(highlights, h) ELSE highlights)

\* HighlightGenerator.find_peak_moments
find_peak_moments(segments, min_duration) ==
  PeakLoop(segments, min_duration, 1, <<>>)

RECURSIVE Extend(_)
Extend(lists) ==
  IF lists = <<>> THEN <<>> ELSE Head(lists) \o Extend(Tail(lists))

\* HighlightGenerator.generate_description
generate_description(highlight) ==
  LET data == highlight.peak_segment.data
      events == Extend([i \in 1..Len(data) |-> data[i].events])
      event_types == {events[i].type : i \in 1..Len(events)}
  IN IF events = <<>> THEN "Exciting game moment"
     ELSE IF "goal" \in event_types THEN "Goal scoring opportunity"
     ELSE IF "fast_movement" \in event_types THEN "Fast-paced action"
     ELSE IF "possession_change" \in event_types
     THEN "Ball possession battle"
     ELSE "Key game moment"

\* enhanced_football_tracker.py:376-379 : title and description.
AddMetadata(highlights) ==
  [i \in 1..Len(highlights) |->
     [start_time |-> highlights[i].start_time,
      end_time |-> highlights[i].end_time,
      score |-> highlights[i].score,
      peak_segment |-> highlights[i].peak_segment,
      title |-> <<"Highlight", i>>,
      description |-> generate_description(highlights[i])]]

\* HighlightGenerator.generate_highlights : the list find_peak_moments found
\* and the list returned.
generate_highlights(tracking_data, min_highlight_duration, max_highlights) ==
  IF tracking_data = <<>> THEN [candidates |-> <<>>, ret |-> <<>>]
  ELSE LET segment_scores == score_segments(tracking_data)
           found == find_peak_moments(segment_scores, min_highlight_duration)
       IN [candidates |-> found,
           ret |-> AddMetadata(Truncate(sort_by_score(found),
                                        max_highlights))]

\* The frames of the model: one every FrameStep seconds, up to MaxHLFrames of
\* them; max_highlights up to MaxHighlights.
FrameStep == 5
MaxHLFrames == 7
MaxHighlights == 1

GoalEvent == [type |-> "goal", confidence |-> 80]

\* What a frame holds: nothing, a goal event, or a goal event and the ball.
FrameKinds ==
  {[events |-> <<>>, tracked_objects |-> <<>>],
   [events |-> <<GoalEvent>>, tracked_objects |-> <<>>],
   [events |-> <<GoalEvent>>,
    tracked_objects |-> <<[class_name |-> "sports ball"]>>]}

-----------------------------------------------------------------------------
(* FootballHighlightProcessor.detect_highlights
   (src/ai_highlight_processor.py:456-590) *)

\* Activity scores are in hundredths, fps in tenths of a frame per second,
\* start_time, end_time and duration of a highlight moment in half seconds,
\* list indices from 1.

\* self.config (src/ai_highlight_processor.py:48-52)
\* A configuration with longer duration limits than the shipped one.
configLong ==
  [min_highlight_duration |-> 40, max_highlight_duration |-> 60,
   activity_threshold |-> 70]

\* self.config, ai_highlight_processor.py:47-56 (scores in hundredths)
config ==
  [min_highlight_duration |-> 10, max_highlight_duration |-> 30,
   activity_threshold |-> 70]

\* int(fps * seconds)
FramesIn(fps, seconds) == (fps * seconds) \div 10

\* scipy.signal.find_peaks(x, height=height, distance=1) : the middle of
\* every flat stretch that is higher than the sample on either side of it
\* and at least height high, in ascending order.  With distance = 1 no peak
\* is dropped for being close to another.
find_peaks(x, height) ==
  LET FlatEnd(l) == CHOOSE r \in l..Len(x) :
                      /\ \A i \in l..r : x[i] = x[l]
                      /\ r = Len(x) \/ x[r + 1] # x[l]
      rising == {l \in 2..Len(x) : x[l - 1] < x[l] /\ x[l] >= height}
      falling == {l \in rising :
                    FlatEnd(l) < Len(x) /\ x[FlatEnd(l) + 1] < x[l]}
  IN SortedSeq({(l + FlatEnd(l)) \div 2 : l \in falling})

\* A classifier that decides by the first listed event alone.
classify_highlightFirstEvent(events, activity_score) ==
  LET first == IF events = <<>> THEN "none" ELSE events[1].type
  IN IF first = "ball_near_goal"
     THEN IF "celebration" \in {events[i].type : i \in 1..Len(events)}
          THEN "goal" ELSE "goal_attempt"
     ELSE IF first = "celebration" THEN "celebration"
     ELSE IF first = "fast_movement" /\ activity_score > 80
     THEN "fast_action"
     ELSE IF activity_score > 70 THEN "high_activity"
     ELSE "general"

\* FootballHighlightProcessor.classify_highlight
classify_highlight(events, activity_score) ==
  LET event_types == {events[i].type : i \in 1..Len(events)}
  IN IF "ball_near_goal" \in event_types
     THEN IF "celebration" \in event_types THEN "goal" ELSE "goal_attempt"
     ELSE IF "celebration" \in event_types THEN "celebration"
     ELSE IF "fast_movement" \in event_types /\ activity_score > 80
     THEN "fast_action"
     ELSE IF activity_score > 70 THEN "high_activity"
     ELSE "general"

\* base_durations.get(highlight_type, 10)
base_durations(highlight_type) ==
  CASE highlight_type = "goal" -> 20
    [] highlight_type = "goal_attempt" -> 15
    [] highlight_type = "celebration" -> 10
    [] highlight_type = "fast_action" -> 15
    [] highlight_type = "high_activity" -> 12
    [] OTHER -> 10

\* FootballHighlightProcessor.calculate_highlight_duration, in seconds; the
\* window is range(max(0, peak - 30), min(len, peak + 30)) and is sustained
\* when more than 30 * 0.7 = 21 of its frames score over 0.5.
calculate_highlight_duration(frames, peak_idx, highlight_type) ==
  LET start_check == IF peak_idx - 30 < 1 THEN 1 ELSE peak_idx - 30
      end_check == IF peak_idx + 29 > Len(frames) THEN Len(frames)
                   ELSE peak_idx + 29
      high_activity_frames ==
        Cardinality({i \in start_check..end_check :
                       frames[i].activity_score > 50})
      base_duration == base_durations(highlight_type)
                         + (IF high_activity_frames > 21 THEN 5 ELSE 0)
      floored == IF base_duration > config.min_highlight_duration
                 THEN base_duration ELSE config.min_highlight_duration
  IN IF floored < config.max_highlight_duration THEN floored
     ELSE config.max_highlight_duration

\* ai_highlight_processor.py:483-512 : the highlight moment of one peak.
HighlightMoment(analysis_data, peak_idx) ==
  LET frames == analysis_data.frames
      reach == FramesIn(analysis_data.fps, 2)
      start_idx == IF peak_idx - reach < 1 THEN 1 ELSE peak_idx - reach
      end_idx == IF peak_idx + reach - 1 > Len(frames) THEN Len(frames)
                 ELSE peak_idx + reach - 1
      peak_timestamp == frames[peak_idx].timestamp
      peak_score == frames[peak_idx].activity_score
      peak_events ==
        Extend([k \in 1..(end_idx - start_idx + 1) |->
                  frames[start_idx + k - 1].events])
      highlight_type == classify_highlight(peak_events, peak_score)
      duration == calculate_highlight_duration(frames, peak_idx,
                                               highlight_type)
  IN [start_time |-> IF 2 * peak_timestamp - duration < 0 THEN 0
                     ELSE 2 * peak_timestamp - duration,
      end_time |-> IF 2 * peak_timestamp + duration
                        > 2 * analysis_data.duration
                   THEN 2 * analysis_data.duration
                   ELSE 2 * peak_timestamp + duration,
      peak_timestamp |-> peak_timestamp,
      score |-> peak_score,
      type |-> highlight_type,
      events |-> peak_events,
      duration |-> 2 * duration]

\* FootballHighlightProcessor.detect_highlights for a video whose
\* int(fps * 5) is 1 : the highlight moments before the sort and the list
\* returned, the top 10.
detect_highlights(analysis_data) ==
  LET frames == analysis_data.frames
      activity_scores == [i \in 1..Len(frames) |-> frames[i].activity_score]
      peaks == find_peaks(activity_scores, config.activity_threshold)
      highlight_moments ==
        [k \in 1..Len(peaks) |-> HighlightMoment(analysis_data, peaks[k])]
  IN [candidates |-> highlight_moments,
      ret |-> Truncate(sort_by_score(highlight_moments), 10)]

\* The videos of the model: fps = Fps / 10, a frame every 5 s, up to MaxBursts
\* pairs of a quiet frame and an active frame.
Fps == 2
MaxBursts == 12
QuietScore == 40
ActiveScores == {70, 90}

\* The frame after frames, at timestamp index / fps.
AnalysisFrame(frames, activity_score) ==
  [timestamp |-> (10 * Len(frames)) \div Fps,
   activity_score |-> activity_score,
   events |-> <<>>]

-----------------------------------------------------------------------------
(* State *)

VARIABLES
  ct,            \* a CentroidTracker instance
  ctLast,        \* what the last update() call on ct did
  unmatchedRun,  \* id -> number of consecutive update() calls, up to and
                 \* including the last, in which the object went unmatched
  issuedBefore,  \* the ids registered before the last update() call
  drain,         \* the run of update([]) calls in progress
  single,        \* the one real object of the single-object scenario
  given,         \* the tracker and the list of the last call, when the list
                 \* may hold incomplete detections
  mot,           \* a MultiObjectTracker instance
  mLast,         \* what the last MultiObjectTracker.update() call did
  twin,          \* a new MultiObjectTracker, given the calls made since reset()
  catLast,       \* the last categorize_objects() call: its list and its result
  fed,           \* a FootballEventDetector instance
  now,           \* the clock, time.time()
  evLast,        \* what the last detect_events() call saw and returned
  goalLog,       \* goal area -> times of the goal events emitted for it
  goalRun,       \* the first run of frames with the ball in a goal area
  playLast,      \* the last frame with persons: what was seen and returned
  seenLog,       \* person id -> centre and time of the last frame it was in
  fastLog,       \* person id -> time of its last fast_movement event
  cast,          \* who is on the field in this run
  program,       \* which highlight component this run uses
  tracking_data, \* the frames recorded for HighlightGenerator
  analysis_data, \* the video analysis for FootballHighlightProcessor
  hl,            \* what the last highlight call on these data returned
  call,          \* the one processor function this run calls, and its result
  threads,       \* the threads that call update() on the CentroidTracker ct
  server         \* a CameraServer: its request thread, tracking thread and file

ctVars == <<ct, ctLast, unmatchedRun, issuedBefore, drain, single, given>>
motVars == <<mot, mLast, twin, catLast>>
evVars == <<fed, now, evLast, goalLog, goalRun, playLast, seenLog, fastLog,
           cast>>
hlVars == <<program, tracking_data, analysis_data, hl, call>>
runVars == <<threads, server>>
vars == <<ct, ctLast, unmatchedRun, issuedBefore, drain, single, given, mot, mLast,
          twin, catLast,
          fed, now, evLast, goalLog, goalRun, playLast, seenLog, fastLog,
          cast,
          program, tracking_data, analysis_data, hl, call, threads, server>>

NoCall == [called |-> FALSE, raised |-> FALSE, ndets |-> 0,
           matches |-> <<>>, aged |-> <<>>, registered |-> <<>>]

NoDrain == [k |-> -1, ids |-> {}]

NoMultiCall == [called |-> FALSE, keys |-> {}, updated |-> {},
                before |-> MultiObjectTracker.trackers,
                ret |-> [objects |-> EmptyDict, frame_count |-> 0,
                         stats |-> get_stats(MultiObjectTracker)]]

\* Ids whose object has disappeared = 0, when that is all of them.
AllActive(t) == \A id \in DOMAIN t.disappeared : t.disappeared[id] = 0

MatchedIds(o) == {o.matches[i].id : i \in 1..Len(o.matches)}
RegisteredIds(o) == {o.registered[i].id : i \in 1..Len(o.registered)}

\* The bookkeeping of one update() call on ct.
CTEffect(detections, o) ==
  /\ ct' = o.t
  /\ ctLast' = [called |-> TRUE, raised |-> o.raised, ndets |-> Len(detections),
                matches |-> o.matches, aged |-> o.aged,
                registered |-> o.registered]
  /\ unmatchedRun' =
       [id \in ObjIds(ct.objects) \cup RegisteredIds(o) |->
          IF id \in MatchedIds(o) \/ id \in RegisteredIds(o) THEN 0
          ELSE unmatchedRun[id] + 1]
  /\ issuedBefore' = issuedBefore \cup RegisteredIds(ctLast)
  /\ drain' =
       IF Len(detections) = 0
       THEN IF AllActive(ct) THEN [k |-> 1, ids |-> ObjIds(ct.objects)]
            ELSE IF drain.k >= 1 THEN [drain EXCEPT !.k = @ + 1]
            ELSE NoDrain
       ELSE NoDrain

CTRecord(detections, o) == CTEffect(detections, o) /\ UNCHANGED given

\* One call ct.update(detections), for any list of detections.  A call that
\* raised ends the caller's loop (the callers do not catch), so no call
\* follows it.
CTUpdate ==
  /\ ~ctLast.raised
  /\ \E detections \in DetLists :
       /\ ct.next_object_id + Len(detections) <= MaxId
       /\ \E rows \in RowOrdersFor(ct, detections) :
            CTRecord(detections, update(ct, detections, rows))
  /\ UNCHANGED <<single, motVars, evVars, hlVars, runVars>>

\* pos: where the object is; lastDet: where it was last detected;
\* undetected: the frames since; gap, moved: the undetected frames before the
\* last detection and whether that detection was at a new place; near: every
\* detection so far lay less than max_distance from the one before.
NoSingle == [pos |-> <<0, 0>>, lastDet |-> <<0, 0>>, undetected |-> 0,
             gap |-> 0, moved |-> FALSE, near |-> TRUE, firstId |-> -1]

NoGoalLog == [a \in GoalNames |-> {}]

NoEventCall == [called |-> FALSE, time |-> 0, area |-> "none",
                centre |-> "none", events |-> <<>>,
                logBefore |-> NoGoalLog]

NoGoalRun == [area |-> "none", phase |-> "none", t0 |-> 0, tIn |-> 0,
              count |-> 0, firstCount |-> 0, timestamps |-> {},
              nIn |-> 0, nAfter |-> 0]

\* The state after construction of each component.
NoGiven == [called |-> FALSE,
            before |-> CentroidTracker(MaxDisappeared, MaxDistance),
            detections |-> <<>>]

TrackerIdle ==
  /\ ct = CentroidTracker(MaxDisappeared, MaxDistance)
  /\ given = NoGiven
  /\ ctLast = NoCall
  /\ unmatchedRun = EmptyDict
  /\ issuedBefore = {}
  /\ drain = NoDrain
  /\ single = NoSingle

NoTwin == [on |-> FALSE, used |-> FALSE, justReset |-> FALSE,
           m |-> MultiObjectTracker, ret |-> NoMultiCall.ret]

NoCategorized == [called |-> FALSE, detections |-> <<>>, ret |-> EmptyDict]

MultiIdle ==
  /\ mot = MultiObjectTracker
  /\ mLast = NoMultiCall
  /\ twin = NoTwin
  /\ catLast = NoCategorized

\* The possession history: whether a possessor was ever recorded, the
\* first one recorded or the to_player of the last possession_change event
\* since, and whether and when such an event was emitted last.
NoPossession == [recorded |-> FALSE, holder |-> -1,
                 changed |-> FALSE, time |-> 0]

NoPlayCall == [called |-> FALSE, time |-> 0, objects |-> <<>>,
               after |-> <<>>,
               events |-> <<>>, before |-> FootballEventDetector,
               seenBefore |-> EmptyDict, fastBefore |-> EmptyDict,
               possBefore |-> NoPossession, possAfter |-> NoPossession]

NoCast == [ids |-> {}, places |-> {}, balls |-> {}, time |-> 0]

NoEventsYet ==
  /\ fed = FootballEventDetector
  /\ now = StartTime
  /\ evLast = NoEventCall
  /\ goalLog = NoGoalLog
  /\ goalRun = NoGoalRun
  /\ playLast = NoPlayCall
  /\ seenLog = EmptyDict
  /\ fastLog = EmptyDict

EventsIdle == NoEventsYet /\ cast = NoCast

NoAnalysis == [frames |-> <<>>, fps |-> Fps, duration |-> 0]

NoHighlights == [called |-> FALSE, fn |-> "none", max_highlights |-> 0,
                 candidates |-> <<>>, ret |-> <<>>]

NoPure == [fn |-> "none", done |-> FALSE, args |-> <<>>, ret |-> "none"]

\* No thread has called update() and the server has not been started.
NoThreads == [on |-> FALSE]

NoServer == [on |-> FALSE]

RunIdle == threads = NoThreads /\ server = NoServer

NoData ==
  /\ tracking_data = <<>>
  /\ analysis_data = NoAnalysis
  /\ hl = NoHighlights
  /\ call = NoPure

HighlightsIdle == program = "none" /\ NoData

TrackerInit == TrackerIdle /\ MultiIdle /\ EventsIdle /\ RunIdle /\ HighlightsIdle

TrackerNext == CTUpdate

SpecTracker == TrackerInit /\ [][TrackerNext]_vars

-----------------------------------------------------------------------------
(* CentroidTracker.update on lists that may hold incomplete detections *)

\* Detection dicts that lack a key update() reads: one without "center",
\* and one without "bbox" at every position.
Malformed == {[bbox |-> <<0, 0, 0, 0>>]} \cup {[center |-> p] : p \in Points}

WellFormed(detection) ==
  HasKey(detection, "center") /\ HasKey(detection, "bbox")

\* Every list of at most MaxDets detections, complete or not.
AnyDetLists ==
  UNION {[1..n -> Detections \cup Malformed] : n \in 0..MaxDets}

\* One call ct.update(detections) on such a list.  The callers do not catch,
\* so no call follows one that raised.
CTUpdateAny ==
  /\ ~ctLast.raised
  /\ \E detections \in AnyDetLists :
       /\ ct.next_object_id + Len(detections) <= MaxId
       /\ \E rows \in RowOrdersFor(ct, detections) :
            CTEffect(detections, update(ct, detections, rows))
       /\ given' = [called |-> TRUE, before |-> ct, detections |-> detections]
  /\ UNCHANGED <<single, motVars, evVars, hlVars, runVars>>

AnyInit == TrackerIdle /\ MultiIdle /\ EventsIdle /\ RunIdle /\ HighlightsIdle

AnyNext == CTUpdateAny

SpecAny == AnyInit /\ [][AnyNext]_vars


-----------------------------------------------------------------------------
(* Claims about CentroidTracker, checked under SpecTracker *)

\* The last update() call returned its map (it did not raise).
Returned == ctLast.called /\ ~ctLast.raised

\* C2 (as claimed): an object unmatched in at most max_disappeared
\* consecutive update() calls is in the returned map, and one unmatched in
\* max_disappeared + 1 consecutive calls is absent from it.
C2_Eviction ==
  Returned =>
    \A id \in DOMAIN unmatchedRun :
      /\ unmatchedRun[id] <= ct.max_disappeared => id \in ObjIds(ct.objects)
      /\ unmatchedRun[id] > ct.max_disappeared => id \notin ObjIds(ct.objects)

\* C3: in one update() call no object is matched to two detections, no
\* detection is matched to two objects, no detection is registered twice,
\* and no detection is both matched and registered.
C3_NoDuplicateConsumption ==
  LET m == ctLast.matches
      r == ctLast.registered
  IN /\ \A i, j \in 1..Len(m) :
          i # j => m[i].id # m[j].id /\ m[i].col # m[j].col
     /\ \A i, j \in 1..Len(r) :
          i # j => r[i].id # r[j].id /\ r[i].col # r[j].col
     /\ \A i \in 1..Len(m), j \in 1..Len(r) : m[i].col # r[j].col

\* C3 witness: a call that matched a detection to one object while a second,
\* unmatched object was also within max_distance of that detection.
C3_Witness ==
  /\ Returned
  /\ Len(ctLast.matches) = 1
  /\ \E i, j \in 1..Len(ct.objects) :
       /\ ct.objects[i].id = ctLast.matches[1].id
       /\ ct.objects[j].id \notin MatchedIds(ctLast)
       /\ SqDist(ct.objects[i].centroid, ct.objects[j].centroid)
            <= ct.max_distance * ct.max_distance

\* C4: every id registered by a call is greater than every id issued before
\* it (in earlier calls or earlier in the same call); the ids in the map are
\* pairwise distinct and below next_object_id, as is every id ever issued.
C4_MonotonicIds ==
  LET r == ctLast.registered IN
  /\ \A i, j \in 1..Len(ct.objects) :
       i # j => ct.objects[i].id # ct.objects[j].id
  /\ \A id \in ObjIds(ct.objects) \cup issuedBefore \cup RegisteredIds(ctLast) :
       id < ct.next_object_id
  /\ \A k \in 1..Len(r) :
       /\ \A id \in issuedBefore : id < r[k].id
       /\ \A j \in 1..(k - 1) : r[j].id < r[k].id

\* C4 witness: a call registers a new object after an earlier object has
\* been deregistered.
C4_Witness ==
  /\ Returned
  /\ Len(ctLast.registered) >= 1
  /\ \E id \in issuedBefore : id \notin ObjIds(ct.objects)

\* C5 (as claimed): update() never raises.
C5_UpdateNeverRaises == ~ctLast.raised

\* C9: k <= max_disappeared consecutive update([]) calls on objects that all
\* had disappeared = 0 leave every object in place with disappeared = k;
\* max_disappeared + 1 such calls leave the map empty.
C9_Draining ==
  drain.k >= 1 =>
    IF drain.k <= ct.max_disappeared
    THEN /\ ObjIds(ct.objects) = drain.ids
         /\ DOMAIN ct.disappeared = drain.ids
         /\ \A id \in drain.ids : ct.disappeared[id] = drain.k
    ELSE ct.objects = <<>>

\* C9 witness: two active objects drained by max_disappeared + 1 empty updates.
C9_Witness ==
  /\ drain.k = ct.max_disappeared + 1
  /\ Cardinality(drain.ids) >= 2
  /\ ct.objects = <<>>


-----------------------------------------------------------------------------
(* The single-object scenario: one real object in front of the camera,    *)
(* one update() per frame with the object's detection or with none.        *)

\* The object moves by less than max_distance from one frame to the next.
Moves(p, q) == SqDist(p, q) < ct.max_distance * ct.max_distance

\* A frame in which the object, now at p, is detected: ct.update([det at p]).
SingleDetected ==
  /\ ~ctLast.raised
  /\ ct.next_object_id + 1 <= MaxId
  /\ \E p \in Points :
       /\ Moves(single.pos, p)
       /\ LET detections == <<Detection(p)>> IN
          \E rows \in RowOrdersFor(ct, detections) :
            LET o == update(ct, detections, rows) IN
            /\ CTRecord(detections, o)
            /\ single' =
                 [pos |-> p, lastDet |-> p, undetected |-> 0,
                  gap |-> single.undetected,
                  moved |-> single.firstId # -1 /\ p # single.lastDet,
                  near |-> /\ single.near
                           /\ \/ single.firstId = -1
                              \/ Moves(single.lastDet, p),
                  firstId |-> IF single.firstId = -1 /\ Len(o.registered) > 0
                              THEN o.registered[1].id ELSE single.firstId]
  /\ UNCHANGED <<motVars, evVars, hlVars, runVars>>

\* A frame in which the object, now at p, is not detected: ct.update([]).
\* It is never missed in more than max_disappeared consecutive frames.
SingleMissed ==
  /\ ~ctLast.raised
  /\ single.firstId # -1
  /\ single.undetected + 1 <= ct.max_disappeared
  /\ \E p \in Points :
       /\ Moves(single.pos, p)
       /\ CTRecord(<<>>, update(ct, <<>>, <<>>))
       /\ single' = [single EXCEPT !.pos = p, !.undetected = @ + 1]
  /\ UNCHANGED <<motVars, evVars, hlVars, runVars>>

SingleInit ==
  /\ ct = [CentroidTracker(MaxDisappeared + 1, MaxDistance + 1)
            EXCEPT !.trail_length = TrailLength + 1]
  /\ ctLast = NoCall
  /\ unmatchedRun = EmptyDict
  /\ issuedBefore = {}
  /\ drain = NoDrain
  /\ \E p \in Points : single = [NoSingle EXCEPT !.pos = p, !.lastDet = p]
  /\ given = NoGiven
  /\ MultiIdle /\ EventsIdle /\ RunIdle /\ HighlightsIdle

SingleNext == SingleDetected \/ SingleMissed

SpecSingle == SingleInit /\ [][SingleNext]_vars

\* C1 (as claimed): once the object is registered, the map holds exactly its
\* first id after every update, and no other id has been issued.
C1_IdStability ==
  single.firstId # -1 =>
    /\ ObjIds(ct.objects) = {single.firstId}
    /\ issuedBefore \cup RegisteredIds(ctLast) = {single.firstId}

\* C1 (amended): the same, when every detection of the object lies less
\* than max_distance from its previous detection.
C1_IdStabilityByDetections ==
  (single.firstId # -1 /\ single.near) =>
    /\ ObjIds(ct.objects) = {single.firstId}
    /\ issuedBefore \cup RegisteredIds(ctLast) = {single.firstId}

\* C1 witness: the object moved while it went undetected for max_disappeared
\* frames, was then detected again and matched under its first id.
C1_Witness ==
  /\ single.firstId # -1 /\ single.near
  /\ Len(ctLast.matches) = 1
  /\ ctLast.matches[1].id = single.firstId
  /\ single.gap = ct.max_disappeared
  /\ single.moved


-----------------------------------------------------------------------------
(* The MultiObjectTracker scenario: one update() per frame, and resets. *)

\* One call mot.update(categorized_detections).  A call that raised ends
\* the caller's loop.
MUpdate ==
  /\ ~mot.raised
  /\ mot.frame_count < MaxFrames
  /\ \E categorized_detections \in MultiInputs :
       \E order \in KeyOrders(DOMAIN categorized_detections) :
         \E rowsOf \in RowChoices(mot, categorized_detections) :
           \E r \in {mot_update(mot, categorized_detections, order, rowsOf)} :
           /\ mot' = r.m
           /\ mLast' = [called |-> TRUE,
                        keys |-> DOMAIN categorized_detections,
                        updated |-> r.updated,
                        before |-> mot.trackers,
                        ret |-> r.ret]
           /\ \E n \in {IF ~twin.on \/ twin.m = mot THEN r
                        ELSE mot_update(twin.m, categorized_detections,
                                        order, rowsOf)} :
                twin' = IF ~twin.on THEN twin
                        ELSE [twin EXCEPT !.justReset = FALSE,
                                          !.m = n.m, !.ret = n.ret]
  /\ UNCHANGED <<catLast, ctVars, evVars, hlVars, runVars>>

\* One call mot.reset().
MReset ==
  /\ ~mot.raised
  /\ mot' = mot_reset(mot)
  /\ mLast' = NoMultiCall
  /\ twin' = [on |-> TRUE, used |-> mot.trackers # MultiObjectTracker.trackers,
              justReset |-> TRUE, m |-> MultiObjectTracker,
              ret |-> NoMultiCall.ret]
  /\ UNCHANGED <<catLast, ctVars, evVars, hlVars, runVars>>

MultiInit == TrackerIdle /\ MultiIdle /\ EventsIdle /\ RunIdle /\ HighlightsIdle

MultiNext == MUpdate \/ MReset

SpecMulti == MultiInit /\ [][MultiNext]_vars

-----------------------------------------------------------------------------
(* FootballDetector.categorize_objects (src/detection.py:219-247) over
   OBJECT_CATEGORIES (src/config.py:194-209) *)

\* config.py:209 : range(80), the COCO class ids.
ClassCount == 80

\* The keys of OBJECT_CATEGORIES in insertion order (config.py:195-202).
CategoryNames == <<"people", "vehicles", "animals", "sports", "electronics",
                   "furniture", "food", "other">>

\* config.py:194-203 : the dict literal.
Listed ==
  [people |-> {0}, vehicles |-> 1..8, animals |-> 14..23, sports |-> 29..38,
   electronics |-> 62..70, furniture |-> 56..61, food |-> 46..55,
   other |-> {}]

\* config.py:206-208
all_categorized == UNION {Listed[c] : c \in DOMAIN Listed}

\* config.py:209 : OBJECT_CATEGORIES["other"] = the remaining ids of range(80).
OBJECT_CATEGORIES ==
  [Listed EXCEPT
     !.other = {i \in 0..(ClassCount - 1) : i \notin all_categorized}]

\* detection.py:237-240 : "for category, class_ids in ...items()", from
\* position k of the dict: the first category whose list holds class_id, and
\* object_category as it was before the loop when there is no break.
RECURSIVE FirstHolder(_, _, _)
FirstHolder(class_id, k, object_category) ==
  IF k > Len(CategoryNames) THEN object_category
  ELSE IF class_id \in OBJECT_CATEGORIES[CategoryNames[k]]
       THEN CategoryNames[k]
       ELSE FirstHolder(class_id, k + 1, object_category)

\* detection.py:236-240 with the default "people" instead of "other".
CategoryOfDefaultPeople(class_id) == FirstHolder(class_id, 1, "people")

\* detection.py:236-240 : object_category = "other", then the loop.
CategoryOf(class_id) == FirstHolder(class_id, 1, "other")

\* detection.py:232-244 : "for detection in detections", from position i.
RECURSIVE CategorizeLoop(_, _, _)
CategorizeLoop(categorized, detections, i) ==
  IF i > Len(detections) THEN categorized
  ELSE LET detection == detections[i]
           c == CategoryOf(detection.class_id)
       IN CategorizeLoop(
            [categorized EXCEPT ![c] = Append(@, Put(detection, "category", c))],
            detections, i + 1)

\* detection.py:219-247
categorize_objects(detections) ==
  CategorizeLoop([c \in DOMAIN OBJECT_CATEGORIES |-> <<>>], detections, 1)

MaxClassDets == 2

\* The class ids a detection can carry: the ids of range(80), and ids
\* outside it on both sides.
ClassIds == (0 - 1)..(ClassCount + 1)

\* The ids at the edges of the table: below it, its first, its last, and
\* beyond it.
EdgeIds == {0 - 1, 0, ClassCount - 1, ClassCount}

\* The lists given to categorize_objects: at most MaxClassDets detections,
\* the first with any class id, the others with the ids at the edges.
ClassLists ==
  {<<>>} \cup
  UNION {{<<[class_id |-> id]>> \o rest :
            id \in ClassIds, rest \in [1..n -> [class_id : EdgeIds]]} :
         n \in 0..(MaxClassDets - 1)}

\* The call categorize_objects(detections) on the list of this run.
Categorize ==
  /\ ~catLast.called
  /\ catLast' = [catLast EXCEPT
                   !.called = TRUE,
                   !.ret = categorize_objects(catLast.detections)]
  /\ UNCHANGED <<mot, mLast, twin, ctVars, evVars, hlVars, runVars>>

CategorizeInit ==
  /\ TrackerIdle /\ EventsIdle /\ RunIdle /\ HighlightsIdle
  /\ mot = MultiObjectTracker
  /\ mLast = NoMultiCall
  /\ twin = NoTwin
  /\ \E detections \in ClassLists :
       catLast = [NoCategorized EXCEPT !.detections = detections]

CategorizeNext == Categorize

SpecCategorize == CategorizeInit /\ [][CategorizeNext]_vars

\* C10 (as claimed): every update() call updates the tracker of every known
\* category: each appears in the returned objects map, and the objects of a
\* category absent from the input have aged by one or been evicted.
C10_EveryCategoryUpdated ==
  (mLast.called /\ ~mot.raised) =>
    /\ mLast.updated = Categories
    /\ DOMAIN mLast.ret.objects = Categories
    /\ \A c \in Categories \ mLast.keys :
         \A id \in DOMAIN mLast.before[c].disappeared :
           IF mLast.before[c].disappeared[id] + 1 > mot.trackers[c].max_disappeared
           THEN id \notin ObjIds(mot.trackers[c].objects)
           ELSE /\ id \in DOMAIN mot.trackers[c].disappeared
                /\ mot.trackers[c].disappeared[id]
                     = mLast.before[c].disappeared[id] + 1

\* C11 (reset is a full wipe): right after reset() the tracker equals a newly
\* constructed one (no objects, counters or trails, next id 0, the construction
\* parameters, frame_count and total_objects_detected 0, empty histories), and
\* from then on it stays equal to a new instance given the same update() calls
\* and returns the same results.
C11_ResetIsFullWipe ==
  twin.on =>
    /\ twin.justReset =>
         /\ mot = MultiObjectTracker
         /\ \A c \in Categories :
              /\ mot.trackers[c].objects = <<>>
              /\ mot.trackers[c].disappeared = EmptyDict
              /\ mot.trackers[c].trails = EmptyDict
              /\ mot.trackers[c].next_object_id = 0
              /\ mot.trackers[c].max_disappeared = TrackerFor(c).max_disappeared
              /\ mot.trackers[c].max_distance = TrackerFor(c).max_distance
              /\ mot.object_count_history[c] = <<>>
         /\ mot.frame_count = 0
         /\ mot.total_objects_detected = 0
    /\ mot = twin.m
    /\ mLast.called => mLast.ret = twin.ret

\* reset() was called on a tracker that had issued ids, and an update() after
\* it has registered an object again.
C11_Witness ==
  /\ twin.on /\ twin.used
  /\ mLast.called
  /\ \E c \in Categories : mot.trackers[c].objects # <<>>
  /\ mLast.ret.frame_count >= 2

-----------------------------------------------------------------------------
(* FootballEventDetector.detect_events() called frame after frame *)

GoalEvents(events) == SelectSeq(events, LAMBDA e : e.type = "goal")

GoalEventsFor(events, a) ==
  SelectSeq(GoalEvents(events), LAMBDA e : e.location = a)

Later(n) == IF n < 3 THEN n + 1 ELSE n

\* A run starts at a frame that holds one ball, within a goal area for which
\* no cooldown is recorded.
StartRun(d, tracked_objects, current_time, events) ==
  LET area == IF Len(tracked_objects) = 1
              THEN AreaOf(tracked_objects[1].bbox) ELSE "none"
      goals == GoalEvents(events)
  IN IF area # "none" /\ <<"goal", area>> \notin DOMAIN d.event_cooldown
     THEN [area |-> area, phase |-> "in", t0 |-> current_time,
           tIn |-> current_time, count |-> Len(goals),
           firstCount |-> Len(goals),
           timestamps |-> {goals[i].timestamp : i \in 1..Len(goals)},
           nIn |-> 1, nAfter |-> 0]
     ELSE NoGoalRun

\* The run goes on while the ball is in the same area, for at most 5 s, and
\* then while there is no ball.
RunStep(run, d, tracked_objects, current_time, events) ==
  LET area == IF Len(tracked_objects) = 1
              THEN AreaOf(tracked_objects[1].bbox) ELSE "none"
      goals == GoalEvents(events)
      counted == [run EXCEPT
                    !.count = @ + Len(goals),
                    !.timestamps =
                       @ \cup {goals[i].timestamp : i \in 1..Len(goals)}]
  IN IF /\ run.phase = "in" /\ area = run.area
        /\ current_time - run.t0 <= 5
     THEN [counted EXCEPT !.nIn = Later(@), !.tIn = current_time]
     ELSE IF run.phase \in {"in", "after"} /\ tracked_objects = <<>>
     THEN [counted EXCEPT !.phase = "after", !.nAfter = Later(@)]
     ELSE StartRun(d, tracked_objects, current_time, events)

\* One frame: time.time() has advanced by dt and detect_events() runs on the
\* frame's objects.
DetectEvents ==
  /\ \E dt \in 0..MaxStep, tracked_objects \in BallFrames :
       LET current_time == now + dt
           b == BallIndex(tracked_objects)
       IN /\ current_time <= StartTime + MaxTime
          /\ \E r \in {detect_events(fed, tracked_objects, current_time)} :
               /\ now' = current_time
               /\ fed' = r.d
               /\ evLast' = [called |-> TRUE, time |-> current_time,
                             area |-> IF b = 0 THEN "none"
                                      ELSE AreaOf(tracked_objects[b].bbox),
                             centre |->
                               IF b = 0 THEN "none"
                               ELSE CentroidArea(tracked_objects[b].bbox),
                             events |-> r.events, logBefore |-> goalLog]
               /\ goalLog' =
                    [a \in GoalNames |->
                       goalLog[a] \cup
                         {r.events[i].timestamp : i \in
                            {j \in 1..Len(r.events) :
                               /\ r.events[j].type = "goal"
                               /\ r.events[j].location = a}}]
               /\ goalRun' = RunStep(goalRun, fed, tracked_objects,
                                     current_time, r.events)
               /\ UNCHANGED <<playLast, seenLog, fastLog, cast>>
  /\ UNCHANGED <<ctVars, motVars, hlVars, runVars>>

GoalInit == TrackerIdle /\ MultiIdle /\ EventsIdle /\ RunIdle /\ HighlightsIdle

GoalNext == DetectEvents

SpecGoal == GoalInit /\ [][GoalNext]_vars

\* The goal events for area a emitted from time t - 5 to time t.
Recent(log, a, t) == {u \in log[a] : t - 5 <= u /\ u <= t}

\* C6 (goal cooldown): a goal event for an area is emitted only when every
\* earlier goal event for that area is more than 5 s old, so none follows an
\* event at t up to and including t + 5; a frame whose ball is in a goal
\* area has exactly one goal event for that area in the 5 s up to it, and
\* emits one itself whenever that area had none, whatever the other area's
\* cooldown is.
C6_GoalCooldown ==
  evLast.called =>
    /\ Len(GoalEvents(evLast.events)) <= 1
    /\ \A a \in GoalNames :
         /\ GoalEventsFor(evLast.events, a) # <<>> =>
              /\ Recent(evLast.logBefore, a, evLast.time) = {}
              /\ \A u \in evLast.logBefore[a] : evLast.time - u > 5
              /\ GoalEventsFor(evLast.events, a)[1].timestamp = evLast.time
         /\ evLast.area = a =>
              /\ Cardinality(Recent(goalLog, a, evLast.time)) = 1
              /\ Recent(evLast.logBefore, a, evLast.time) = {} =>
                   GoalEventsFor(evLast.events, a) # <<>>

\* A ball in an area exactly 5 s after that area's goal event, suppressed,
\* the other area having had its own goal event in between.
C6_Witness ==
  /\ evLast.called
  /\ \E a \in GoalNames, b \in GoalNames :
       /\ a # b
       /\ evLast.area = a
       /\ evLast.events = <<>>
       /\ evLast.time - 5 \in goalLog[a]
       /\ \E u \in goalLog[b] : evLast.time - 5 < u /\ u < evLast.time

\* C7 (one goal per run): from no cooldown recorded for the area, over a run
\* of frames with the ball in the area spanning at most 5 s and the ball-less
\* frames after it, exactly one goal event is emitted, by the first frame of
\* the run and with that frame's time as its timestamp.
C7_OneGoalPerRun ==
  goalRun.phase \in {"in", "after"} =>
    /\ goalRun.count = 1
    /\ goalRun.firstCount = 1
    /\ goalRun.timestamps = {goalRun.t0}

\* Three or more frames in the area, the last of them 5 s after the first,
\* then two or more frames without a ball.
C7_Witness ==
  /\ goalRun.phase = "after"
  /\ goalRun.nIn >= 3
  /\ goalRun.nAfter >= 2
  /\ goalRun.tIn - goalRun.t0 = 5
  /\ goalRun.count = 1

-----------------------------------------------------------------------------
(* Highlights: generate_highlights() over recorded frames, detect_highlights()
   over an analysed video *)

\* min_highlight_duration=10 (src/enhanced_football_tracker.py:350)
MinHighlightDuration == 10

\* One more frame is recorded, FrameStep seconds after the last.
RecordFrame ==
  /\ program = "generator"
  /\ Len(tracking_data) < MaxHLFrames
  /\ \E kind \in FrameKinds :
       tracking_data' =
         Append(tracking_data,
                [timestamp |-> StartTime + FrameStep * Len(tracking_data),
                 events |-> kind.events,
                 tracked_objects |-> kind.tracked_objects])
  /\ hl' = NoHighlights
  /\ UNCHANGED <<call, program, analysis_data, ctVars, motVars, evVars, runVars>>

GenerateHighlights ==
  /\ program = "generator"
  /\ \E max_highlights \in 0..MaxHighlights :
       \E r \in {generate_highlights(tracking_data, MinHighlightDuration,
                                     max_highlights)} :
          hl' = [called |-> TRUE, fn |-> "generate_highlights",
                 max_highlights |-> max_highlights,
                 candidates |-> r.candidates, ret |-> r.ret]
  /\ UNCHANGED <<call, program, tracking_data, analysis_data,
                 ctVars, motVars, evVars, runVars>>

\* The analysis goes on by a quiet frame and an active frame.
AnalyseFrames ==
  /\ program = "processor"
  /\ Len(analysis_data.frames) < 2 * MaxBursts
  /\ \E activity_score \in ActiveScores :
       LET quiet == Append(analysis_data.frames,
                           AnalysisFrame(analysis_data.frames, QuietScore))
           frames == Append(quiet, AnalysisFrame(quiet, activity_score))
       IN analysis_data' = [frames |-> frames, fps |-> Fps,
                            duration |-> (10 * Len(frames)) \div Fps]
  /\ hl' = NoHighlights
  /\ UNCHANGED <<call, program, tracking_data, ctVars, motVars, evVars, runVars>>

DetectHighlights ==
  /\ program = "processor"
  /\ FramesIn(analysis_data.fps, 5) = 1
  /\ \E r \in {detect_highlights(analysis_data)} :
       hl' = [called |-> TRUE, fn |-> "detect_highlights",
              max_highlights |-> 10,
              candidates |-> r.candidates, ret |-> r.ret]
  /\ UNCHANGED <<call, program, tracking_data, analysis_data,
                 ctVars, motVars, evVars, runVars>>

HighlightsInit ==
  /\ TrackerIdle /\ MultiIdle /\ EventsIdle /\ RunIdle
  /\ program \in {"generator", "processor"}
  /\ NoData

HighlightsNext ==
  \/ RecordFrame
  \/ GenerateHighlights
  \/ AnalyseFrames
  \/ DetectHighlights

SpecHighlights == HighlightsInit /\ [][HighlightsNext]_vars

-----------------------------------------------------------------------------
(* HighlightGenerator.score_segments on frames at uneven times
   (src/enhanced_football_tracker.py:383-453) *)

\* Up to MaxSegFrames frames, each ShortGap or FrameStep seconds after the
\* one before.
MaxSegFrames == 4
ShortGap == 2

\* The events FootballEventDetector emits, with confidences in hundredths.
GoalAt90 == [type |-> "goal", confidence |-> 90]
FastAt70 == [type |-> "fast_movement", confidence |-> 70]
PossessionAt80 == [type |-> "possession_change", confidence |-> 80]

\* What a frame holds: nothing; a goal and one player; a fast movement, a
\* change of possession, a player and the ball.
SegmentKinds ==
  {[events |-> <<>>, tracked_objects |-> <<>>],
   [events |-> <<GoalAt90>>,
    tracked_objects |-> <<[class_name |-> "person"]>>],
   [events |-> <<FastAt70, PossessionAt80>>,
    tracked_objects |-> <<[class_name |-> "person"],
                          [class_name |-> "sports ball"]>>]}

RecordFrameAt ==
  /\ program = "segments"
  /\ Len(tracking_data) < MaxSegFrames
  /\ \E kind \in SegmentKinds, gap \in {ShortGap, FrameStep} :
       /\ tracking_data = <<>> => gap = FrameStep
       /\ tracking_data' =
            Append(tracking_data,
                   [timestamp |->
                      IF tracking_data = <<>> THEN StartTime
                      ELSE tracking_data[Len(tracking_data)].timestamp + gap,
                    events |-> kind.events,
                    tracked_objects |-> kind.tracked_objects])
  /\ hl' = NoHighlights
  /\ UNCHANGED <<call, program, analysis_data, ctVars, motVars, evVars, runVars>>

ScoreSegments ==
  /\ program = "segments"
  /\ \E segments \in {score_segments(tracking_data)} :
       hl' = [called |-> TRUE, fn |-> "score_segments", max_highlights |-> 0,
              candidates |-> segments, ret |-> segments]
  /\ UNCHANGED <<call, program, tracking_data, analysis_data,
                 ctVars, motVars, evVars, runVars>>

SegmentsInit ==
  /\ TrackerIdle /\ MultiIdle /\ EventsIdle /\ RunIdle
  /\ program = "segments"
  /\ NoData

SegmentsNext == RecordFrameAt \/ ScoreSegments

SpecSegments == SegmentsInit /\ [][SegmentsNext]_vars

\* How many entries of the list have this score.
ScoreCount(highlights, score) ==
  Cardinality({i \in 1..Len(highlights) : highlights[i].score = score})

\* C8 (highlight ordering): the list returned by generate_highlights and by
\* detect_highlights is in order of non-increasing score, is no longer than
\* the maximum, is made of candidates, holds as many as the maximum allows,
\* and no candidate left out scores higher than a returned one.
C8_HighlightOrdering ==
  hl.called =>
    /\ \A i \in 1..Len(hl.ret) : \A j \in 1..Len(hl.ret) :
         i < j => hl.ret[i].score >= hl.ret[j].score
    /\ Len(hl.ret) <= hl.max_highlights
    /\ Len(hl.ret) = Len(hl.candidates) \/ Len(hl.ret) = hl.max_highlights
    /\ \A i \in 1..Len(hl.ret) : \E j \in 1..Len(hl.candidates) :
         /\ hl.candidates[j].start_time = hl.ret[i].start_time
         /\ hl.candidates[j].end_time = hl.ret[i].end_time
         /\ hl.candidates[j].score = hl.ret[i].score
    /\ \A j \in 1..Len(hl.candidates) :
         LET score == hl.candidates[j].score
         IN /\ ScoreCount(hl.ret, score) <= ScoreCount(hl.candidates, score)
            /\ ScoreCount(hl.ret, score) < ScoreCount(hl.candidates, score)
                 => \A i \in 1..Len(hl.ret) : hl.ret[i].score >= score

\* generate_highlights found more candidates than the maximum allows, the
\* first of them scoring less than the second, and returned the second.
C8_Witness ==
  /\ hl.called
  /\ hl.fn = "generate_highlights"
  /\ hl.max_highlights >= 1
  /\ Len(hl.candidates) > hl.max_highlights
  /\ hl.candidates[1].score < hl.candidates[2].score
  /\ Len(hl.ret) = hl.max_highlights
  /\ hl.ret[1].score = hl.candidates[2].score

-----------------------------------------------------------------------------
(* FootballEventDetector.detect_events() on frames with persons and a ball *)

FastEvents(events) == SelectSeq(events, LAMBDA e : e.type = "fast_movement")

FastEventsFor(events, id) ==
  SelectSeq(FastEvents(events), LAMBDA e : e.player_id = id)

PossessionEvents(events) ==
  SelectSeq(events, LAMBDA e : e.type = "possession_change")

\* The persons of a frame, by position in the list, and their ids.
PersonIdx(objects) ==
  {i \in 1..Len(objects) : objects[i].class_name = "person"}

IdsIn(objects) == {objects[i].track_id : i \in PersonIdx(objects)}

\* The object of the frame that carries this id.
ObjOf(objects, id) ==
  objects[CHOOSE i \in PersonIdx(objects) : objects[i].track_id = id]

RECURSIVE SeenAfter(_, _, _, _)
SeenAfter(log, objects, current_time, i) ==
  IF i > Len(objects) THEN log
  ELSE SeenAfter(IF objects[i].class_name = "person"
                 THEN Put(log, objects[i].track_id,
                          [pos |-> Center2(objects[i].bbox),
                           time |-> current_time])
                 ELSE log,
                 objects, current_time, i + 1)

RECURSIVE FastAfter(_, _, _)
FastAfter(log, events, i) ==
  IF i > Len(events) THEN log
  ELSE FastAfter(IF events[i].type = "fast_movement"
                 THEN Put(log, events[i].player_id, events[i].timestamp)
                 ELSE log,
                 events, i + 1)

\* The possession history after a frame that returned these events and
\* left the detector d.
PossessionAfter(log, d, events) ==
  LET changes == SelectSeq(events, LAMBDA e : e.type = "possession_change")
  IN IF changes # <<>>
     THEN [recorded |-> TRUE,
           holder |-> changes[Len(changes)].to_player,
           changed |-> TRUE,
           time |-> changes[Len(changes)].timestamp]
     ELSE IF ~log.recorded /\ d.has_current_possession
     THEN [log EXCEPT !.recorded = TRUE, !.holder = d.current_possession]
     ELSE log

\* One frame with persons, and possibly the ball at one of their places.
DetectPlay ==
  /\ \E dt \in 0..PlayStep, persons \in PlayFrames(cast),
        balls \in {<<>>} \cup {<<BallAt(x)>> : x \in cast.balls} :
       LET current_time == now + dt
           tracked_objects == persons \o balls
       IN /\ current_time <= StartTime + cast.time
          /\ \E r \in {detect_events(fed, tracked_objects, current_time)} :
               /\ now' = current_time
               /\ fed' = r.d
               /\ playLast' = [called |-> TRUE, time |-> current_time,
                               objects |-> tracked_objects,
                               after |-> objects_after(tracked_objects),
                               events |-> r.events, before |-> fed,
                               seenBefore |-> seenLog,
                               fastBefore |-> fastLog,
                               possBefore |-> playLast.possAfter,
                               possAfter |->
                                 PossessionAfter(playLast.possAfter, r.d,
                                                 r.events)]
               /\ seenLog' = SeenAfter(seenLog, tracked_objects,
                                       current_time, 1)
               /\ fastLog' = FastAfter(fastLog, r.events, 1)
  /\ UNCHANGED <<evLast, goalLog, goalRun, cast, ctVars, motVars, hlVars, runVars>>

PlayInit ==
  /\ TrackerIdle /\ MultiIdle /\ RunIdle /\ HighlightsIdle
  /\ NoEventsYet
  /\ cast \in Casts

PlayNext == DetectPlay

SpecPlay == PlayInit /\ [][PlayNext]_vars

\* The person moved at more than 50 px/s since the observation obs.
Faster(obj, current_time, obs) ==
  /\ current_time - obs.time > 0
  /\ SqDist(Center2(obj.bbox), obs.pos)
       > 10000 * (current_time - obs.time) * (current_time - obs.time)

\* No fast_movement event for the id in the 3 s up to current_time.
NoFastLately(log, id, current_time) ==
  id \notin DOMAIN log \/ current_time - log[id] > 3

\* The (position, time) entry this frame should leave for the person.
Observed(obj, current_time) ==
  [pos |-> Center2(obj.bbox), time |-> current_time]

\* C12 (as claimed, for the ids other than 0): after a frame, the stored
\* (last_position, last_time) of every person of the frame with a track id is
\* (its position in the frame, the frame's time), whether or not a
\* fast_movement event was emitted for it.
C12_HistoryRefreshed ==
  playLast.called =>
    \A id \in IdsIn(playLast.objects) \ {None, 0} :
       /\ id \in DOMAIN fed.previous_positions
       /\ fed.previous_positions[id]
            = Observed(ObjOf(playLast.objects, id), playLast.time)

\* C13 (as claimed): for every person id from 0 on, when the id was observed
\* in an earlier frame, its speed since then is over 50 px/s and it had no
\* fast_movement event in the preceding 3 s, the frame emits a fast_movement
\* event for it.
C13_EveryIdDetected ==
  playLast.called =>
    \A id \in IdsIn(playLast.objects) \ {None} :
       (/\ id \in DOMAIN playLast.seenBefore
        /\ Faster(ObjOf(playLast.objects, id), playLast.time,
                  playLast.seenBefore[id])
        /\ NoFastLately(playLast.fastBefore, id, playLast.time))
         => FastEventsFor(playLast.events, id) # <<>>

\* C14 (per-id cooldown): a fast_movement event for an id comes more than 3 s
\* after the id's previous one; and a person whose stored observation shows
\* more than 50 px/s and who had no event of its own in the last 3 s gets its
\* event, whatever the cooldowns of the other ids are.
C14_FastCooldownPerId ==
  playLast.called =>
    \A id \in IdsIn(playLast.objects) \ {None, 0} :
       /\ FastEventsFor(playLast.events, id) # <<>> =>
            /\ Len(FastEventsFor(playLast.events, id)) = 1
            /\ FastEventsFor(playLast.events, id)[1].timestamp = playLast.time
            /\ id \in DOMAIN playLast.fastBefore =>
                 playLast.time - playLast.fastBefore[id] > 3
       /\ (/\ id \in DOMAIN playLast.before.previous_positions
           /\ Faster(ObjOf(playLast.objects, id), playLast.time,
                     playLast.before.previous_positions[id])
           /\ NoFastLately(playLast.fastBefore, id, playLast.time))
            => FastEventsFor(playLast.events, id) # <<>>

\* One person gets a fast_movement event while another, fast as well, is
\* held back by its own event of at most 3 s before.
C14_Witness ==
  /\ playLast.called
  /\ \E a \in IdsIn(playLast.objects), b \in IdsIn(playLast.objects) :
       /\ a # b
       /\ FastEventsFor(playLast.events, a) # <<>>
       /\ FastEventsFor(playLast.events, b) = <<>>
       /\ b \in DOMAIN playLast.fastBefore
       /\ playLast.time - playLast.fastBefore[b] <= 3
       /\ b \in DOMAIN playLast.before.previous_positions
       /\ Faster(ObjOf(playLast.objects, b), playLast.time,
                 playLast.before.previous_positions[b])

\* The ball of the last frame and the person nearest to it.
BallOf(objects) == objects[BallIndex(objects)]

Nearest(objects) ==
  Players(objects)[ClosestPlayer(BallOf(objects), Players(objects))]

\* A ball, and a person less than 50 px from it.
PossessorSeen(objects) ==
  /\ BallIndex(objects) # 0
  /\ Players(objects) # <<>>
  /\ SqDist(Center2(BallOf(objects).bbox), Center2(Nearest(objects).bbox))
       < 10000

\* C15 (as claimed): with a possessor recorded, a frame whose nearest person
\* is within 50 px of the ball and is not the possessor emits a
\* possession_change from the possessor to that person and records the
\* person, when at least 2 s have passed since the last recorded change (or
\* none was recorded), and emits nothing when less than 2 s have passed.
C15_PossessionChange ==
  (/\ playLast.called
   /\ PossessorSeen(playLast.objects)
   /\ playLast.before.has_current_possession
   /\ Nearest(playLast.objects).track_id
        # playLast.before.current_possession) =>
     IF \/ ~playLast.before.has_last_possession_change
        \/ playLast.time - playLast.before.last_possession_change >= 2
     THEN /\ Len(PossessionEvents(playLast.events)) = 1
          /\ PossessionEvents(playLast.events)[1].from_player
               = playLast.before.current_possession
          /\ PossessionEvents(playLast.events)[1].to_player
               = Nearest(playLast.objects).track_id
          /\ fed.current_possession = Nearest(playLast.objects).track_id
     ELSE PossessionEvents(playLast.events) = <<>>

\* C16 (as claimed): the first frame in which a person id is seen stores the
\* id's (position, time) and emits no fast_movement event for it; the first
\* frame in which a possessor is identified records it and emits no
\* possession_change event.
C16_FirstObservation ==
  playLast.called =>
    /\ \A id \in IdsIn(playLast.objects) \ {None} :
         id \notin DOMAIN playLast.seenBefore =>
           /\ id \in DOMAIN fed.previous_positions
           /\ fed.previous_positions[id]
                = Observed(ObjOf(playLast.objects, id), playLast.time)
           /\ FastEventsFor(playLast.events, id) = <<>>
    /\ (PossessorSeen(playLast.objects)
        /\ ~playLast.before.has_current_possession) =>
           /\ fed.has_current_possession
           /\ fed.current_possession = Nearest(playLast.objects).track_id
           /\ PossessionEvents(playLast.events) = <<>>

\* The complete detections of a list, in their order.
Complete(detections) == SelectSeq(detections, WellFormed)

\* C17: a detection that lacks "center" or "bbox" is skipped: update() on a
\* list does what update() does on the complete detections of that list:
\* it raises only if that call raises (which a call on complete detections
\* can, tracking.py:159-166), and it leaves the tracker that call leaves.
C17_MalformedSkipped ==
  given.called =>
    \E rows \in RowOrdersFor(given.before, Complete(given.detections)) :
      LET o == update(given.before, Complete(given.detections), rows) IN
      /\ ctLast.raised = o.raised
      /\ ct = o.t

\* The categories whose id list holds class_id.
Holders(class_id) ==
  {c \in DOMAIN OBJECT_CATEGORIES : class_id \in OBJECT_CATEGORIES[c]}

\* The detections of the list whose class id belongs to category c ("other"
\* when no list holds it), in their order, each tagged with c.
Routed(detections, c) ==
  LET Belongs(d) == Holders(d.class_id) = {c}
                    \/ (Holders(d.class_id) = {} /\ c = "other")
      mine == SelectSeq(detections, Belongs)
  IN [i \in 1..Len(mine) |-> Put(mine[i], "category", c)]

CategoryCounts(ret) ==
  [k \in 1..Len(CategoryNames) |-> Len(ret[CategoryNames[k]])]

\* C18: every id of 0..79 is in exactly one category list; the result of
\* categorize_objects has every category as a key; each category holds
\* exactly the detections whose class id is in its list, and "other" also
\* those whose id is in no list; the category counts sum to the number of
\* detections given.
C18_RoutingIsTotal ==
  /\ \A id \in 0..(ClassCount - 1) : Cardinality(Holders(id)) = 1
  /\ catLast.called =>
       /\ DOMAIN catLast.ret = DOMAIN OBJECT_CATEGORIES
       /\ \A c \in DOMAIN OBJECT_CATEGORIES :
            catLast.ret[c] = Routed(catLast.detections, c)
       /\ SeqSum(CategoryCounts(catLast.ret)) = Len(catLast.detections)

\* A call with an id beyond the table and the id of a person: one lands in
\* "other", the other in "people".
C18_Witness ==
  /\ catLast.called
  /\ catLast.detections = <<[class_id |-> ClassCount], [class_id |-> 0]>>
  /\ Len(catLast.ret["other"]) = 1
  /\ Len(catLast.ret["people"]) = 1

Scored == hl.called /\ hl.fn = "score_segments"

\* The segments whose data holds the frame with this timestamp.
WindowsOf(segments, timestamp) ==
  {k \in 1..Len(segments) :
     \E j \in 1..Len(segments[k].data) :
        segments[k].data[j].timestamp = timestamp}

\* C19: the segments of score_segments tile [first timestamp, last
\* timestamp]: the first starts at the first timestamp, each next one starts
\* where the one before ends, all are 5 s long except possibly the last,
\* the last ends at the last timestamp; and every frame, from the first to
\* the last, is in the data of exactly one segment.
C19_SegmentsPartition ==
  Scored /\ tracking_data # <<>> =>
    LET segments == hl.ret
        n == Len(segments)
        last == tracking_data[Len(tracking_data)].timestamp
    IN /\ n > 0 =>
            /\ segments[1].start_time = tracking_data[1].timestamp
            /\ segments[n].end_time = last
            /\ \A k \in 1..(n - 1) :
                 /\ segments[k + 1].start_time = segments[k].end_time
                 /\ segments[k].end_time = segments[k].start_time + 5
            /\ segments[n].end_time <= segments[n].start_time + 5
       /\ \A i \in 1..Len(tracking_data) :
            Cardinality(WindowsOf(segments, tracking_data[i].timestamp)) = 1

\* The confidences, in hundredths, of the events of one type in the frames
\* of a segment, summed.
RECURSIVE ConfidenceOf(_, _)
ConfidenceOf(segment_data, type) ==
  IF segment_data = <<>> THEN 0
  ELSE LET events == Head(segment_data).events
           mine == SelectSeq(events, LAMBDA e : e.type = type)
       IN SeqSum([i \in 1..Len(mine) |-> mine[i].confidence])
            + ConfidenceOf(Tail(segment_data), type)

ObjectsIn(segment_data) ==
  SeqSum([i \in 1..Len(segment_data) |->
            Len(segment_data[i].tracked_objects)])

BallFramesIn(segment_data) ==
  Len(SelectSeq(segment_data, HasBall))

\* C20: a segment with frames scores 1.0 x the goal confidences + 0.6 x the
\* fast_movement confidences + 0.3 x the possession_change confidences of
\* its frames, + 0.1 x its mean object count, + 0.2 x its frames with a
\* ball (in 1/6000); a segment without frames scores 0; a segment with a
\* goal event of confidence 0.9 scores at least 0.9, which is over 0.5.
C20_SegmentScore ==
  Scored =>
    \A k \in 1..Len(hl.ret) :
      LET data == hl.ret[k].data
          score == hl.ret[k].score
      IN /\ data = <<>> => score = 0
         /\ data # <<>> =>
              /\ Len(data) * score =
                    Len(data) * (60 * ConfidenceOf(data, "goal")
                                 + 36 * ConfidenceOf(data, "fast_movement")
                                 + 18 * ConfidenceOf(data, "possession_change")
                                 + 1200 * BallFramesIn(data))
                    + 600 * ObjectsIn(data)
              /\ ConfidenceOf(data, "goal") >= 90 =>
                   score >= 5400 /\ score > 3000

\* A scored series with a segment that holds a goal of confidence 0.9, a
\* segment that holds a fast movement, a change of possession and the ball,
\* and a segment without frames.
C20_Witness ==
  /\ Scored
  /\ \E k \in 1..Len(hl.ret) :
       ConfidenceOf(hl.ret[k].data, "goal") = 90 /\ hl.ret[k].score >= 5400
  /\ \E k \in 1..Len(hl.ret) :
       /\ ConfidenceOf(hl.ret[k].data, "fast_movement") > 0
       /\ BallFramesIn(hl.ret[k].data) > 0
  /\ \E k \in 1..Len(hl.ret) : hl.ret[k].data = <<>> /\ hl.ret[k].score = 0

Generated ==
  hl.called /\ hl.fn = "generate_highlights" /\ tracking_data # <<>>

\* Segment i scores over 0.5 and more than every segment within two places
\* of it.
StrictPeak(segments, i) ==
  /\ segments[i].score > 3000
  /\ \A j \in ((i - 2)..(i + 2)) \cap (1..Len(segments)) :
       j # i => segments[j].score < segments[i].score

\* From the start of the segment before i to the end of the segment after
\* it, where there is one.
SpanStart(segments, i) == segments[IF i = 1 THEN 1 ELSE i - 1].start_time
SpanEnd(segments, i) ==
  segments[IF i = Len(segments) THEN i ELSE i + 1].end_time

\* The highlights found whose peak segment is segment i.
FoundFor(segments, i) ==
  {k \in 1..Len(hl.candidates) : hl.candidates[k].peak_segment = segments[i]}

\* C21: every highlight find_peak_moments returns has as its peak a segment
\* that scores over 0.5 and strictly more than each of the (up to) two
\* segments before and two after it, and carries that segment's score; and
\* every such segment whose span is long enough has a highlight.
C21_LocalMaximum ==
  Generated =>
    LET segments == score_segments(tracking_data) IN
    /\ \A k \in 1..Len(hl.candidates) :
         \E i \in 1..Len(segments) :
            /\ StrictPeak(segments, i)
            /\ hl.candidates[k].peak_segment = segments[i]
            /\ hl.candidates[k].score = segments[i].score
    /\ \A i \in 1..Len(segments) :
         (/\ StrictPeak(segments, i)
          /\ SpanEnd(segments, i) - SpanStart(segments, i)
                >= MinHighlightDuration)
           => FoundFor(segments, i) # {}

\* A highlight was found, and a segment that ties with its neighbour over
\* 0.5 has none.
C21_Witness ==
  /\ Generated
  /\ hl.candidates # <<>>
  /\ LET segments == score_segments(tracking_data) IN
     \E i \in 1..(Len(segments) - 1) :
        /\ segments[i].score > 3000
        /\ segments[i + 1].score = segments[i].score
        /\ FoundFor(segments, i) = {}

\* C22: a highlight spans from the start of the segment before its peak to
\* the end of the segment after it (the peak's own start or end at either
\* end of the list) and is at least min_duration long; a peak whose span
\* is shorter has no highlight.
C22_HighlightWindow ==
  Generated =>
    LET segments == score_segments(tracking_data) IN
    \A i \in 1..Len(segments) :
      /\ \A k \in FoundFor(segments, i) :
           /\ hl.candidates[k].start_time = SpanStart(segments, i)
           /\ hl.candidates[k].end_time = SpanEnd(segments, i)
           /\ hl.candidates[k].end_time - hl.candidates[k].start_time
                >= MinHighlightDuration
      /\ SpanEnd(segments, i) - SpanStart(segments, i) < MinHighlightDuration
           => FoundFor(segments, i) = {}

\* A peak whose span is too short was dropped.
C22_Witness ==
  /\ Generated
  /\ LET segments == score_segments(tracking_data) IN
     \E i \in 1..Len(segments) :
        /\ StrictPeak(segments, i)
        /\ SpanEnd(segments, i) - SpanStart(segments, i)
             < MinHighlightDuration
        /\ FoundFor(segments, i) = {}

CentroidOf(t, id) ==
  (CHOOSE o \in {t.objects[k] : k \in 1..Len(t.objects)} : o.id = id).centroid

\* What a trail of at most k centroids is after one more: the oldest goes
\* when it is full.
Trailed(trail, centroid, k) ==
  IF Len(trail) < k THEN trail \o <<centroid>>
  ELSE SubSeq(trail, 2, Len(trail)) \o <<centroid>>

\* C23: after every update() call the trails are those of the tracked
\* objects (a deregistered object's trail is gone); a trail holds at most
\* trail_length centroids and ends with the object's centroid; the trail of
\* an object registered in the call is its centroid alone, the trail of an
\* object matched in the call is its trail before with the new centroid
\* added and the oldest dropped if it was full, and the trail of any other
\* object is as before.
C23_BoundedTrail ==
  [][/\ DOMAIN ct'.trails = ObjIds(ct'.objects)
     /\ \A id \in ObjIds(ct'.objects) :
          /\ Len(ct'.trails[id]) <= ct.trail_length
          /\ ct'.trails[id][Len(ct'.trails[id])] = CentroidOf(ct', id)
          /\ id \in RegisteredIds(ctLast') =>
               ct'.trails[id] = <<CentroidOf(ct', id)>>
          /\ id \in MatchedIds(ctLast') =>
               ct'.trails[id] =
                 Trailed(ct.trails[id], CentroidOf(ct', id), ct.trail_length)
          /\ id \notin RegisteredIds(ctLast') \cup MatchedIds(ctLast') =>
               ct'.trails[id] = ct.trails[id]]_vars

\* An object matched in the last call at a new place, with a full trail of
\* more than one centroid.
C23_Witness ==
  /\ ctLast.called /\ ctLast.matches # <<>>
  /\ \E id \in ObjIds(ct.objects) :
       /\ id \in MatchedIds(ctLast)
       /\ Len(ct.trails[id]) = ct.trail_length
       /\ ct.trail_length > 1
       /\ ct.trails[id][1] # ct.trails[id][2]

\* The detector's own state: its position history, its cooldown table and
\* its possession record.
DetectorFields ==
  {"previous_positions", "event_cooldown", "has_current_possession",
   "current_possession", "has_last_possession_change",
   "last_possession_change"}

C25_GoalByCentroid ==
  (evLast.called /\ \A a \in GoalNames : evLast.logBefore[a] = {}) =>
    /\ GoalEvents(evLast.events) # <<>> <=> evLast.centre # "none"
    /\ \A i \in 1..Len(GoalEvents(evLast.events)) :
         GoalEvents(evLast.events)[i].location = evLast.centre

-----------------------------------------------------------------------------
\* calculate_highlight_duration on its own: one call per run, on a clip, a
\* peak and a highlight type chosen at the start.

\* The longest clip; it has to hold more than 30 * 0.7 = 21 active frames.
MaxClipFrames == 24

\* Scores of the active frames of a clip: between 0.5 and the activity
\* threshold, and above the threshold.
ClipScores == {60, 90}

\* The types classify_highlight returns, and one that it never returns.
DurationTypes == {"goal", "goal_attempt", "celebration", "fast_action",
                  "high_activity", "general", "penalty"}

\* A clip of n analysed frames whose first k frames are active.
Clip(n, k, score) ==
  [i \in 1..n |-> [activity_score |-> IF i <= k THEN score ELSE QuietScore,
                   events |-> <<>>]]

CalculateDuration ==
  /\ call.fn = "calculate_highlight_duration"
  /\ ~call.done
  /\ call' = [call EXCEPT
                !.done = TRUE,
                !.ret = calculate_highlight_duration(
                          call.args.frames, call.args.peak_idx,
                          call.args.highlight_type)]
  /\ UNCHANGED <<program, tracking_data, analysis_data, hl,
                 ctVars, motVars, evVars, runVars>>

DurationInit ==
  /\ TrackerIdle /\ MultiIdle /\ EventsIdle /\ RunIdle
  /\ program = "duration"
  /\ tracking_data = <<>>
  /\ analysis_data = NoAnalysis
  /\ hl = NoHighlights
  /\ \E n \in 1..MaxClipFrames, score \in ClipScores,
        highlight_type \in DurationTypes :
       \E k \in 0..n, peak_idx \in 1..n :
         call = [fn |-> "calculate_highlight_duration", done |-> FALSE,
                 args |-> [frames |-> Clip(n, k, score),
                           peak_idx |-> peak_idx,
                           highlight_type |-> highlight_type],
                 ret |-> "none"]

DurationNext == CalculateDuration

SpecDuration == DurationInit /\ [][DurationNext]_vars

-----------------------------------------------------------------------------
\* classify_highlight on its own: one call per run, on a list of nearby
\* events and a peak score chosen at the start.

\* The longest list of nearby events.
MaxNearby == 3

\* The event types analyze_frame emits, ai_highlight_processor.py:415-455.
NearbyTypes == {"ball_near_goal", "celebration", "fast_movement"}

\* Peak scores on either side of the two score conditions.
PeakScores == {70, 71, 80, 81}

NearbyLists ==
  UNION {[1..n -> {[type |-> t] : t \in NearbyTypes}] : n \in 0..MaxNearby}

ClassifyHighlight ==
  /\ call.fn = "classify_highlight"
  /\ ~call.done
  /\ call' = [call EXCEPT
                !.done = TRUE,
                !.ret = classify_highlight(call.args.events,
                                           call.args.activity_score)]
  /\ UNCHANGED <<program, tracking_data, analysis_data, hl,
                 ctVars, motVars, evVars, runVars>>

ClassifyInit ==
  /\ TrackerIdle /\ MultiIdle /\ EventsIdle /\ RunIdle
  /\ program = "classify"
  /\ tracking_data = <<>>
  /\ analysis_data = NoAnalysis
  /\ hl = NoHighlights
  /\ \E events \in NearbyLists, activity_score \in PeakScores :
       call = [fn |-> "classify_highlight", done |-> FALSE,
               args |-> [events |-> events,
                         activity_score |-> activity_score],
               ret |-> "none"]

ClassifyNext == ClassifyHighlight

SpecClassify == ClassifyInit /\ [][ClassifyNext]_vars

\* The duration call of this run has returned.
Timed == call.fn = "calculate_highlight_duration" /\ call.done

\* C26: whatever the highlight type (known or not), the peak index and the
\* frames, the duration calculate_highlight_duration returns lies between
\* min_highlight_duration = 10 and max_highlight_duration = 30 seconds.
C26_DurationClamp == Timed => call.ret >= 10 /\ call.ret <= 30

\* A type without a base duration has been timed, on a clip with sustained
\* activity around the peak.
C26_Witness ==
  /\ Timed
  /\ call.args.highlight_type = "penalty"
  /\ call.ret = 15

\* The frames of the window around the peak, range(max(0, peak - 30),
\* min(len(frames), peak + 30)).
WindowAround(frames, peak_idx) ==
  {i \in 1..Len(frames) : i >= peak_idx - 30 /\ i <= peak_idx + 29}

\* At least 70% of the frames of the window score above the activity
\* threshold.
SustainedByShare(frames, peak_idx) ==
  LET window == WindowAround(frames, peak_idx)
      above == {i \in window :
                  frames[i].activity_score > config.activity_threshold}
  IN 100 * Cardinality(above) >= 70 * Cardinality(window)

\* C27: the duration is the base duration of the type plus 5 s exactly when
\* at least 70% of the frames of the window around the peak score above the
\* activity threshold, and the base duration alone otherwise.
C27_SustainedExtension ==
  Timed =>
    call.ret = base_durations(call.args.highlight_type)
                 + (IF SustainedByShare(call.args.frames, call.args.peak_idx)
                    THEN 5 ELSE 0)

\* The classification call of this run has returned.
Classified == call.fn = "classify_highlight" /\ call.done

\* The event types in the list given, in whatever order and number.
KindsGiven == {call.args.events[i].type : i \in 1..Len(call.args.events)}

\* The condition under which a type applies.
Applies(highlight_type, kinds, activity_score) ==
  CASE highlight_type = "goal" ->
         "ball_near_goal" \in kinds /\ "celebration" \in kinds
    [] highlight_type = "goal_attempt" -> "ball_near_goal" \in kinds
    [] highlight_type = "celebration" -> "celebration" \in kinds
    [] highlight_type = "fast_action" ->
         "fast_movement" \in kinds /\ activity_score > 80
    [] highlight_type = "high_activity" -> activity_score > 70
    [] OTHER -> TRUE

\* The first type of a priority list whose condition holds.
FirstMatch(priority, kinds, activity_score) ==
  priority[CHOOSE i \in 1..Len(priority) :
             /\ Applies(priority[i], kinds, activity_score)
             /\ \A j \in 1..(i - 1) :
                  ~Applies(priority[j], kinds, activity_score)]

FivePriority ==
  <<"goal", "celebration", "fast_action", "high_activity", "general">>

SixPriority ==
  <<"goal", "goal_attempt", "celebration", "fast_action", "high_activity",
    "general">>

\* C28: classify_highlight returns one of goal, celebration, fast_action,
\* high_activity and general, namely the first in that priority whose
\* condition holds for the set of event types given and the peak score,
\* whatever the order of the events in the list.
C28_FirstMatchWins ==
  Classified =>
    call.ret = FirstMatch(FivePriority, KindsGiven, call.args.activity_score)

\* C28, amended: classify_highlight returns the first type whose condition
\* holds in the priority goal > goal_attempt > celebration > fast_action >
\* high_activity > general, a function of the set of event types given and
\* of the peak score alone.
C28_FirstMatchOfSix ==
  Classified =>
    call.ret = FirstMatch(SixPriority, KindsGiven, call.args.activity_score)

\* A list that starts with a fast movement at a score over 0.8 and holds a
\* celebration and the ball near the goal further on is classified a goal.
C28_Witness ==
  /\ Classified
  /\ call.args.events # <<>>
  /\ call.args.events[1].type = "fast_movement"
  /\ call.args.activity_score > 80
  /\ call.ret = "goal"

-----------------------------------------------------------------------------
\* A tracker that follows a crowd: the first update() registers CrowdSize
\* detections at once and every later one brings no more detections than
\* there are objects, so that it takes the branch of tracking.py:159-166.

\* How many objects the first call registers.
CrowdSize == 3

\* Every list of CrowdSize detections at distinct places.
CrowdLists ==
  {l \in [1..CrowdSize -> Detections] :
     \A i, j \in 1..CrowdSize : i # j => l[i] # l[j]}

\* The first call, ct.update(detections) on the new tracker.
CTRegisterCrowd ==
  /\ ~ctLast.called
  /\ \E detections \in CrowdLists :
       CTRecord(detections, update(ct, detections, <<>>))
  /\ UNCHANGED <<single, motVars, evVars, hlVars, runVars>>

\* A later call, with at most as many detections as objects.
CTUpdateCrowd ==
  /\ ctLast.called
  /\ ~ctLast.raised
  /\ \E detections \in DetLists :
       /\ Len(detections) <= Len(ct.objects)
       /\ \E rows \in RowOrdersFor(ct, detections) :
            CTRecord(detections, update(ct, detections, rows))
  /\ UNCHANGED <<single, motVars, evVars, hlVars, runVars>>

CrowdNext == CTRegisterCrowd \/ CTUpdateCrowd

SpecCrowd == TrackerInit /\ [][CrowdNext]_vars

-----------------------------------------------------------------------------
\* The matching of one update() seen from outside: a first call puts
\* objects in the new tracker, and the call after it is recorded with the
\* tracker and the list it was given.

CTFirst ==
  /\ ~ctLast.called
  /\ \E detections \in DetLists :
       /\ Len(detections) > 0
       /\ CTRecord(detections, update(ct, detections, <<>>))
  /\ UNCHANGED <<single, motVars, evVars, hlVars, runVars>>

CTMatch ==
  /\ ctLast.called
  /\ ~given.called
  /\ \E detections \in DetLists :
       /\ \E rows \in RowOrdersFor(ct, detections) :
            CTEffect(detections, update(ct, detections, rows))
       /\ given' = [called |-> TRUE, before |-> ct, detections |-> detections]
  /\ UNCHANGED <<single, motVars, evVars, hlVars, runVars>>

GreedyNext == CTFirst \/ CTMatch

SpecGreedy == TrackerInit /\ [][GreedyNext]_vars

-----------------------------------------------------------------------------
\* Two threads that call update() on the same CentroidTracker.  The class
\* takes no lock (tracking.py:13-173), so the statements of the two calls
\* interleave unless the callers serialize them.  The statements of
\* register() (tracking.py:52-63) are taken one by one and
\* "self.next_object_id += 1" is a load and a store; the part of update()
\* before the registrations (lines 86-166) is taken in one step.

Threads == {1, 2}

\* What a thread passes: one detection, or two at different places, the
\* left one first.
ThreadLists ==
  {l \in [1..1 -> Detections] \cup [1..2 -> Detections] :
     \A i, j \in 1..Len(l) : i < j => l[i].center[1] < l[j].center[1]}

\* The id counter is not advanced.
AdvancedNot(loaded) == loaded

\* tracking.py:63 : the value "self.next_object_id += 1" stores.
Advanced(loaded) == loaded + 1

\* The callers' lock: a thread enters update() when no other thread is in
\* it, if the calls are serialized.
MayEnter(t) == threads.serialized => threads.lock = 0

\* The lock after thread t moved to pc.
LockAt(t, pc) ==
  IF ~threads.serialized THEN 0
  ELSE IF pc \in {"done", "raised"} THEN 0 ELSE t

OtherVarsOfThreads ==
  UNCHANGED <<ctLast, unmatchedRun, issuedBefore, drain, single, given,
              motVars, evVars, hlVars, server>>

\* An object another thread is still registering: it is in self.objects
\* and has no counter or no trail yet.
NoCounterYet(t) == ObjIds(t.objects) \ DOMAIN t.disappeared
NoTrailYet(t) == ObjIds(t.objects) \ DOMAIN t.trails

\* The tracker with a counter and a trail put in wherever one is missing,
\* and a tracker without those that were put in and not written since.
Filled(t) ==
  [t EXCEPT
     !.disappeared = [id \in DOMAIN @ \cup NoCounterYet(t) |->
                        IF id \in DOMAIN @ THEN @[id] ELSE 0],
     !.trails = [id \in DOMAIN @ \cup NoTrailYet(t) |->
                   IF id \in DOMAIN @ THEN @[id] ELSE <<>>]]

Unfilled(t, before, matched) ==
  [t EXCEPT
     !.disappeared = [id \in DOMAIN @ \ (NoCounterYet(before) \ matched) |->
                        @[id]],
     !.trails = [id \in DOMAIN @ \ NoTrailYet(before) |-> @[id]]]

\* The call reads a key that is not there: the trail of a matched object
\* (line 148) or the counter of an unmatched one in the ageing loop (line
\* 162).
KeyErrorIn(o, before) ==
  \/ o.raised
  \/ MatchedIds(o) \cap NoTrailYet(before) # {}
  \/ ({o.aged[i] : i \in 1..Len(o.aged)} \ MatchedIds(o))
       \cap NoCounterYet(before) # {}

\* update() up to the registrations: all detections are to be registered
\* when there is no object (lines 107-110), and otherwise the detections
\* left unmatched when there are more detections than objects (lines
\* 113-171); with at least as many objects the call ends in the ageing loop.
\* A call that raises leaves the loop it was in; what it had changed until
\* then is not kept here, and no property reads the tracker after a raise.
EnterUpdate ==
  \E t \in Threads :
    /\ threads.pc[t] = "idle"
    /\ MayEnter(t)
    /\ LET detections == threads.detections[t]
           input_centroids ==
             [i \in 1..Len(detections) |-> detections[i].center]
       IN IF Len(ct.objects) = 0
          THEN /\ ct' = ct
               /\ threads' = [threads EXCEPT
                                !.pc[t] = "objects",
                                !.pending[t] = input_centroids,
                                !.lock = LockAt(t, "objects")]
          ELSE \E rows \in RowOrdersFor(ct, detections) :
                 \E m \in {MatchLoop(Outcome(Filled(ct)),
                                     DistMatrix(ct.objects, input_centroids),
                                     rows, input_centroids, detections, 1)} :
                   \E o \in {IF MoreObjectsThanDetections(Len(ct.objects),
                                                          Len(detections))
                             THEN AfterMatch(m, Len(ct.objects),
                                             input_centroids)
                             ELSE m} :
                     LET unused ==
                           IF MoreObjectsThanDetections(Len(ct.objects),
                                                        Len(detections))
                           THEN <<>>
                           ELSE SortedSeq((1..Len(detections))
                                            \ m.used_col_indices)
                         pc == IF KeyErrorIn(o, ct) THEN "raised"
                               ELSE IF unused = <<>> THEN "done"
                               ELSE "objects"
                     IN /\ ct' = IF pc = "raised" THEN ct
                                 ELSE Unfilled(o.t, ct, MatchedIds(o))
                        /\ threads' =
                             [threads EXCEPT
                                !.pc[t] = pc,
                                !.pending[t] =
                                   IF pc = "raised" THEN <<>>
                                   ELSE [i \in 1..Len(unused) |->
                                           input_centroids[unused[i]]],
                                !.lock = LockAt(t, pc)]
    /\ OtherVarsOfThreads

\* tracking.py:52-58 : self.objects[self.next_object_id] = {...}
SetObject ==
  \E t \in Threads :
    /\ threads.pc[t] = "objects"
    /\ ct' = [ct EXCEPT !.objects = OPut(@, ct.next_object_id,
                                         Head(threads.pending[t]))]
    /\ threads' = [threads EXCEPT
                     !.pc[t] = "disappeared",
                     !.ids[t] = Append(@, ct.next_object_id)]
    /\ OtherVarsOfThreads

\* tracking.py:59 : self.disappeared[self.next_object_id] = 0
SetDisappeared ==
  \E t \in Threads :
    /\ threads.pc[t] = "disappeared"
    /\ ct' = [ct EXCEPT !.disappeared = Put(@, ct.next_object_id, 0)]
    /\ threads' = [threads EXCEPT !.pc[t] = "trails"]
    /\ OtherVarsOfThreads

\* tracking.py:60 : self.trails[self.next_object_id] = deque(maxlen=...)
NewTrail ==
  \E t \in Threads :
    /\ threads.pc[t] = "trails"
    /\ ct' = [ct EXCEPT !.trails = Put(@, ct.next_object_id, <<>>)]
    /\ threads' = [threads EXCEPT !.pc[t] = "append"]
    /\ OtherVarsOfThreads

\* tracking.py:61 : self.trails[self.next_object_id].append(centroid), a
\* KeyError when the counter has moved on to an id without a trail.
AppendTrail ==
  \E t \in Threads :
    /\ threads.pc[t] = "append"
    /\ IF ct.next_object_id \in DOMAIN ct.trails
       THEN /\ ct' = [ct EXCEPT
                        !.trails[ct.next_object_id] =
                           DequeAppend(@, Head(threads.pending[t]),
                                       ct.trail_length)]
            /\ threads' = [threads EXCEPT !.pc[t] = "load"]
       ELSE /\ ct' = ct
            /\ threads' = [threads EXCEPT !.pc[t] = "raised",
                                          !.lock = LockAt(t, "raised")]
    /\ OtherVarsOfThreads

\* tracking.py:63 : the read of self.next_object_id += 1
LoadId ==
  \E t \in Threads :
    /\ threads.pc[t] = "load"
    /\ threads' = [threads EXCEPT !.pc[t] = "store",
                                  !.loaded[t] = ct.next_object_id]
    /\ ct' = ct
    /\ OtherVarsOfThreads

\* tracking.py:63 : the write of self.next_object_id += 1, and the next
\* round of the loop that called register().
StoreId ==
  \E t \in Threads :
    /\ threads.pc[t] = "store"
    /\ ct' = [ct EXCEPT !.next_object_id = Advanced(threads.loaded[t])]
    /\ LET pc == IF Len(threads.pending[t]) = 1 THEN "done" ELSE "objects"
       IN threads' = [threads EXCEPT
                        !.pc[t] = pc,
                        !.pending[t] = Tail(@),
                        !.lock = LockAt(t, pc)]
    /\ OtherVarsOfThreads

ThreadsInit ==
  /\ TrackerIdle /\ MultiIdle /\ EventsIdle /\ HighlightsIdle
  /\ server = NoServer
  /\ \E serialized \in BOOLEAN, detections \in [Threads -> ThreadLists] :
       threads = [on |-> TRUE, serialized |-> serialized, lock |-> 0,
                  pc |-> [t \in Threads |-> "idle"],
                  detections |-> detections,
                  pending |-> [t \in Threads |-> <<>>],
                  loaded |-> [t \in Threads |-> 0],
                  ids |-> [t \in Threads |-> <<>>]]

ThreadsNext ==
  \/ EnterUpdate
  \/ SetObject
  \/ SetDisappeared
  \/ NewTrail
  \/ AppendTrail
  \/ LoadId
  \/ StoreId

SpecThreads == ThreadsInit /\ [][ThreadsNext]_vars

-----------------------------------------------------------------------------
(* CameraServer (src/raspberry_pi_server.py:30-268): the request thread
   that runs start_recording() and stop_recording(), the tracking thread
   that runs run_tracking(), and the tracking file of the session.  A
   tracking record is given by its frame number. *)

\* The frames after which run_tracking saves (100 in the code, line 237).
SaveEvery == 2

\* The longest recording, in frames.
MaxRecords == 5

\* The session id start_recording() is given; 0 stands for None.
SessionId == 1

\* CameraServer.__init__ with a camera, before any request.
CameraServer ==
  [on |-> TRUE, recording |-> FALSE, current_session_id |-> 0,
   request |-> "idle", tracking |-> "none",
   frame_count |-> 0, tracking_data |-> <<>>,
   data |-> <<>>, then |-> "none",
   files |-> [id \in {0, SessionId} |-> <<>>]]

OtherVarsOfServer ==
  UNCHANGED <<ctVars, motVars, evVars, hlVars, threads>>

\* raspberry_pi_server.py:111-149 : start_recording() sets the session and
\* starts the tracking thread.
StartRecording ==
  /\ server.request = "idle"
  /\ ~server.recording
  /\ server' = [server EXCEPT !.current_session_id = SessionId,
                              !.recording = TRUE,
                              !.tracking = "loop",
                              !.request = "started"]
  /\ OtherVarsOfServer

\* raspberry_pi_server.py:161-168 : stop_recording() clears the flag.
StopRecording ==
  /\ server.request = "started"
  /\ server.recording
  /\ server' = [server EXCEPT !.recording = FALSE, !.request = "join"]
  /\ OtherVarsOfServer

\* raspberry_pi_server.py:174-176 : self.tracking_thread.join(timeout=5)
\* returns when the thread has ended or when 5 s have passed.
JoinTracking ==
  /\ server.request = "join"
  /\ server' = [server EXCEPT !.request = "reset"]
  /\ OtherVarsOfServer

\* raspberry_pi_server.py:178-185 : "self.current_session_id = None"
ResetSession ==
  /\ server.request = "reset"
  /\ server' = [server EXCEPT !.current_session_id = 0,
                              !.request = "done"]
  /\ OtherVarsOfServer

\* raspberry_pi_server.py:208 and 242-244 : "while self.recording and
\* self.picam2", and after the loop the save of all of tracking_data.
TestRecording ==
  /\ server.tracking = "loop"
  /\ server.recording => server.frame_count < MaxRecords
  /\ server' =
       IF server.recording THEN [server EXCEPT !.tracking = "frame"]
       ELSE IF server.tracking_data # <<>>
       THEN [server EXCEPT !.tracking = "save",
                           !.data = server.tracking_data,
                           !.then = "done"]
       ELSE [server EXCEPT !.tracking = "done"]
  /\ OtherVarsOfServer

\* raspberry_pi_server.py:210-240 : one frame, its record, and every
\* SaveEvery frames the save of tracking_data[-SaveEvery:].
TrackFrame ==
  /\ server.tracking = "frame"
  /\ LET records == Append(server.tracking_data, server.frame_count)
         frame_count == server.frame_count + 1
     IN server' =
          IF frame_count % SaveEvery = 0
          THEN [server EXCEPT
                  !.tracking_data = records,
                  !.frame_count = frame_count,
                  !.tracking = "save",
                  !.data = SubSeq(records,
                                  Len(records) - SaveEvery + 1,
                                  Len(records)),
                  !.then = "loop"]
          ELSE [server EXCEPT !.tracking_data = records,
                              !.frame_count = frame_count,
                              !.tracking = "loop"]
  /\ OtherVarsOfServer

\* raspberry_pi_server.py:250-251 : "if not self.current_session_id: return"
SaveIfSession ==
  /\ server.tracking = "save"
  /\ server' = IF server.current_session_id = 0
               THEN [server EXCEPT !.tracking = server.then, !.data = <<>>]
               ELSE [server EXCEPT !.tracking = "write"]
  /\ OtherVarsOfServer

\* raspberry_pi_server.py:253-268 : the file named after
\* self.current_session_id, read again, is extended by data.
WriteTrackingFile ==
  /\ server.tracking = "write"
  /\ server' = [server EXCEPT
                  !.files[server.current_session_id] = @ \o server.data,
                  !.tracking = server.then,
                  !.data = <<>>]
  /\ OtherVarsOfServer

ServerInit ==
  /\ TrackerIdle /\ MultiIdle /\ EventsIdle /\ HighlightsIdle
  /\ threads = NoThreads
  /\ server = CameraServer

ServerNext ==
  \/ StartRecording
  \/ StopRecording
  \/ JoinTracking
  \/ ResetSession
  \/ TestRecording
  \/ TrackFrame
  \/ SaveIfSession
  \/ WriteTrackingFile

SpecServer == ServerInit /\ [][ServerNext]_vars

\* The ids an update() call leaves Active by the claim: those it matched to
\* a detection and those it registered.
TouchedIds(o) == MatchedIds(o) \cup RegisteredIds(o)

\* The ids issued so far that are no longer tracked.
RemovedIds(t) == (0..(t.next_object_id - 1)) \ ObjIds(t.objects)

\* C29: after every update() call every object the call matched or
\* registered is tracked with disappeared = 0, an object has
\* disappeared > 0 only if the call left it unmatched, and an id that was
\* deregistered before the call is not tracked after it.
C29_PerIdStateMachine ==
  [][ctLast'.called /\ ~ctLast'.raised =>
       /\ \A id \in TouchedIds(ctLast') :
            id \in DOMAIN ct'.disappeared /\ ct'.disappeared[id] = 0
       /\ \A id \in DOMAIN ct'.disappeared :
            ct'.disappeared[id] > 0 => id \notin TouchedIds(ctLast')
       /\ RemovedIds(ct) \cap ObjIds(ct'.objects) = {}]_vars

\* What the claim has an update() do to an object that was tracked before
\* the call: reset it when it is matched, and otherwise add 1 to its count
\* and deregister it exactly when the new count exceeds max_disappeared.
AgedAsClaimed(before, after, o, id) ==
  IF id \in MatchedIds(o)
  THEN id \in DOMAIN after.disappeared /\ after.disappeared[id] = 0
  ELSE IF before.disappeared[id] + 1 > before.max_disappeared
  THEN id \notin ObjIds(after.objects)
  ELSE /\ id \in DOMAIN after.disappeared
       /\ after.disappeared[id] = before.disappeared[id] + 1

\* C30: in every update() with a non-empty detection list, each existing
\* object that is not matched has its disappeared count incremented by
\* exactly 1 and is deregistered if and only if the new count exceeds
\* max_disappeared, however many objects and detections there are, and the
\* count of no other object is incremented.
C30_UnmatchedAgeing ==
  [][ctLast'.called /\ ~ctLast'.raised /\ ctLast'.ndets > 0 =>
       \A id \in ObjIds(ct.objects) : AgedAsClaimed(ct, ct', ctLast', id)]_vars

\* The positions, in the list given, of the detections an update() call
\* matched to an object, and of those it registered.
MatchedCols(o) == {o.matches[i].col : i \in 1..Len(o.matches)}
RegisteredCols(o) == {o.registered[i].col : i \in 1..Len(o.registered)}

\* C31: in every update(), each detection given that is not matched to an
\* existing object is registered in that call as a new object, under an id
\* not issued before and with disappeared = 0, however many objects and
\* detections there are.
C31_UnmatchedRegistered ==
  [][ctLast'.called /\ ~ctLast'.raised =>
       /\ (1..ctLast'.ndets) \ MatchedCols(ctLast') = RegisteredCols(ctLast')
       /\ \A id \in RegisteredIds(ctLast') :
            /\ id >= ct.next_object_id
            /\ id \in DOMAIN ct'.disappeared
            /\ ct'.disappeared[id] = 0]_vars

\* The objects whose counter the call incremented.
AgedIds(o) == {o.aged[i] : i \in 1..Len(o.aged)}

\* C32: an update() on at least as many objects as detections registers
\* nothing (next_object_id is unchanged and no new id is tracked) and
\* increments the counter of unmatched existing objects only.
C32_NoSpuriousObjects ==
  [][/\ ctLast'.called
     /\ ~ctLast'.raised
     /\ Len(ct.objects) >= ctLast'.ndets
     => /\ ct'.next_object_id = ct.next_object_id
        /\ ObjIds(ct'.objects) \subseteq ObjIds(ct.objects)
        /\ AgedIds(ctLast') \subseteq
             ObjIds(ct.objects) \ MatchedIds(ctLast')]_vars

\* The recorded call matched objects against detections.
Matching ==
  /\ given.called
  /\ ~ctLast.raised
  /\ Len(given.before.objects) > 0
  /\ Len(given.detections) > 0

\* Squared distance from the object in row r of the recorded tracker to
\* detection c of the recorded list.
GivenDist(r, c) ==
  SqDist(given.before.objects[r].centroid, given.detections[c].center)

\* The nearest detection of row r: the first of the list among the closest.
NearestCol(r) ==
  CHOOSE c \in 1..Len(given.detections) :
    /\ \A c2 \in 1..Len(given.detections) : GivenDist(r, c) <= GivenDist(r, c2)
    /\ \A c2 \in 1..(c - 1) : GivenDist(r, c2) > GivenDist(r, c)

\* The row of an object id in the recorded tracker.
RowOf(id) ==
  CHOOSE r \in 1..Len(given.before.objects) : given.before.objects[r].id = id

WithinReach(r, c) ==
  GivenDist(r, c) <= given.before.max_distance * given.before.max_distance

\* C33: the pairs update() accepts are those of the greedy procedure: every
\* pair joins an object with its nearest detection at a distance of at most
\* max_distance, no object nearer to that detection has it as its nearest,
\* pairs are accepted in ascending order of distance, no object and no
\* detection is in two pairs, and the nearest detection of every object
\* within max_distance of it is taken, by that object or by another.
C33_GreedyAssignment ==
  Matching =>
    LET pairs == ctLast.matches
        n == Len(pairs)
    IN /\ \A i \in 1..n :
            LET r == RowOf(pairs[i].id) IN
            /\ pairs[i].col = NearestCol(r)
            /\ WithinReach(r, pairs[i].col)
            /\ \A r2 \in 1..Len(given.before.objects) :
                 NearestCol(r2) = pairs[i].col =>
                   GivenDist(r2, pairs[i].col) >= GivenDist(r, pairs[i].col)
       /\ \A i, j \in 1..n :
            i < j =>
              /\ pairs[i].id # pairs[j].id
              /\ pairs[i].col # pairs[j].col
              /\ GivenDist(RowOf(pairs[i].id), pairs[i].col)
                   <= GivenDist(RowOf(pairs[j].id), pairs[j].col)
       /\ \A r \in 1..Len(given.before.objects) :
            WithinReach(r, NearestCol(r)) =>
              \E i \in 1..n : pairs[i].col = NearestCol(r)

\* An object stayed unmatched because a closer object took its nearest
\* detection, while another detection exactly max_distance away from it was
\* left over; and the pair accepted is not the only one possible.
C33_Witness ==
  /\ Matching
  /\ Len(ctLast.matches) = 1
  /\ \E r \in 1..Len(given.before.objects), c \in 1..Len(given.detections) :
       /\ given.before.objects[r].id \notin MatchedIds(ctLast)
       /\ c \notin MatchedCols(ctLast)
       /\ c # NearestCol(r)
       /\ GivenDist(r, c) = given.before.max_distance * given.before.max_distance

\* The ids under which the threads have registered detections so far, in
\* the order of each thread.
IdsIssued == threads.ids[1] \o threads.ids[2]

\* Both calls have returned.
BothReturned == \A t \in Threads : threads.pc[t] = "done"

\* C34: CentroidTracker takes no lock.  When the update() calls of two
\* threads on one instance are serialized, no two registrations get the
\* same id, no call raises, and when both calls have returned every
\* registration is an object of the tracker.  (The witness is the other
\* half: interleaved calls that register two detections under one id and
\* keep one object for them.)
C34_SerializedRegistrations ==
  threads.on /\ threads.serialized =>
    /\ \A i, j \in 1..Len(IdsIssued) : i # j => IdsIssued[i] # IdsIssued[j]
    /\ \A t \in Threads : threads.pc[t] # "raised"
    /\ BothReturned =>
         /\ \A i \in 1..Len(IdsIssued) : IdsIssued[i] \in ObjIds(ct.objects)
         /\ \A i \in 1..Len(IdsIssued) : IdsIssued[i] \in DOMAIN ct.disappeared
         /\ ct.next_object_id = Len(IdsIssued)

\* Two interleaved calls have returned: two detections were registered
\* under the same id and the tracker holds fewer objects than were
\* registered.
C34_Witness ==
  /\ threads.on
  /\ ~threads.serialized
  /\ BothReturned
  /\ \E i, j \in 1..Len(IdsIssued) : i # j /\ IdsIssued[i] = IdsIssued[j]
  /\ Len(ct.objects) < Len(IdsIssued)

\* detect_highlights has returned (times of a highlight moment are in half
\* seconds, its peak_timestamp and the video duration in seconds).
Detected == hl.called /\ hl.fn = "detect_highlights"

\* C35: for every highlight detect_highlights returns, 0 <= start_time <=
\* peak_timestamp <= end_time <= video duration, and the span end_time -
\* start_time that create_highlight_clip cuts equals the duration field and
\* so lies within min_highlight_duration .. max_highlight_duration.
C35_ClipSpan ==
  Detected =>
    \A i \in 1..Len(hl.ret) :
      LET h == hl.ret[i]
          span == h.end_time - h.start_time
      IN /\ 0 <= h.start_time
         /\ h.start_time <= 2 * h.peak_timestamp
         /\ 2 * h.peak_timestamp <= h.end_time
         /\ h.end_time <= 2 * analysis_data.duration
         /\ span = h.duration
         /\ span >= 2 * config.min_highlight_duration
         /\ span <= 2 * config.max_highlight_duration

\* C36: after every register, deregister and update() the three maps of a
\* CentroidTracker have the same keys: every tracked id has one object
\* record, one counter and one trail, and an id that was deregistered has
\* none of them.
C36_MapConsistency ==
  /\ DOMAIN ct.disappeared = ObjIds(ct.objects)
  /\ DOMAIN ct.trails = ObjIds(ct.objects)
  /\ \A i, j \in 1..Len(ct.objects) :
       i # j => ct.objects[i].id # ct.objects[j].id
  /\ \A id \in RemovedIds(ct) :
       id \notin DOMAIN ct.disappeared /\ id \notin DOMAIN ct.trails

\* An update() that matched an object after another object had been
\* deregistered and others registered.
C36_Witness ==
  /\ ctLast.called
  /\ RemovedIds(ct) # {}
  /\ Len(ct.objects) > 0
  /\ MatchedIds(ctLast) # {}

\* C37: whenever update() returns, every object of the map it returns has
\* a counter between 0 and max_disappeared.
C37_BoundedStaleness ==
  ctLast.called /\ ~ctLast.raised =>
    \A id \in ObjIds(ct.objects) :
      /\ id \in DOMAIN ct.disappeared
      /\ ct.disappeared[id] >= 0
      /\ ct.disappeared[id] <= ct.max_disappeared

\* An update() aged one object to max_disappeared and kept it, after an
\* object had been removed for exceeding it.
C37_Witness ==
  /\ ctLast.called
  /\ ~ctLast.raised
  /\ RemovedIds(ct) # {}
  /\ \E id \in ObjIds(ct.objects) :
       /\ id \in AgedIds(ctLast)
       /\ ct.disappeared[id] = ct.max_disappeared

\* The index of the peak segment of the k-th highlight found.
PeakIndex(segments, k) ==
  CHOOSE i \in 1..Len(segments) : hl.candidates[k].peak_segment = segments[i]

\* The segments that lie in the window of the k-th highlight found.
SegmentsOf(segments, k) ==
  {j \in 1..Len(segments) :
     /\ hl.candidates[k].start_time <= segments[j].start_time
     /\ segments[j].end_time <= hl.candidates[k].end_time}

\* C38: the peak segments of any two highlights find_peak_moments returns
\* are at least 3 places apart, their windows share at most an end point
\* and no segment lies in both.
C38_NonOverlapping ==
  Generated =>
    LET segments == score_segments(tracking_data) IN
    \A k, l \in 1..Len(hl.candidates) :
      k < l =>
        /\ PeakIndex(segments, l) - PeakIndex(segments, k) >= 3
        /\ hl.candidates[k].end_time <= hl.candidates[l].start_time
        /\ SegmentsOf(segments, k) \cap SegmentsOf(segments, l) = {}

\* Two highlights were found, one window ending where the other starts.
C38_Witness ==
  /\ Generated
  /\ Len(hl.candidates) >= 2
  /\ hl.candidates[1].end_time = hl.candidates[2].start_time

\* C39: once a first possessor is recorded, the recorded possessor changes
\* only in a frame that emits a possession_change event; every such event
\* has from_player # to_player, to_player is the possessor recorded after
\* the frame, from_player is the to_player of the previous event (or the
\* first possessor recorded), and the event comes more than 2 s after the
\* previous one.
C39_PossessionRecord ==
  playLast.called =>
    LET changes == PossessionEvents(playLast.events)
        log == playLast.possBefore
    IN /\ Len(changes) <= 1
       /\ (log.recorded /\ changes = <<>>) =>
            /\ fed.has_current_possession
            /\ fed.current_possession = log.holder
       /\ \A i \in 1..Len(changes) :
            /\ log.recorded
            /\ changes[i].from_player # changes[i].to_player
            /\ changes[i].to_player = fed.current_possession
            /\ changes[i].from_player = log.holder
            /\ log.changed => changes[i].timestamp - log.time > 2

\* A second possession_change event, away from the player the one before
\* went to.
C39_Witness ==
  /\ playLast.called
  /\ playLast.possBefore.changed
  /\ PossessionEvents(playLast.events) # <<>>
  /\ PossessionEvents(playLast.events)[1].to_player
       # playLast.possBefore.holder

\* How often the record of frame n is in the tracking file of the session.
TimesWritten(n) ==
  Cardinality({k \in 1..Len(server.files[SessionId]) :
                 server.files[SessionId][k] = n})

\* C40: when stop_recording() has returned and run_tracking() has ended,
\* every tracking record of the session is in the session's tracking file
\* exactly once, however the two threads interleaved.
C40_ExactlyOnce ==
  (server.on /\ server.request = "done" /\ server.tracking = "done") =>
    \A n \in 0..(server.frame_count - 1) : TimesWritten(n) = 1

=============================================================================
